---- MODULE Spec2Model ----
(***************************************************************************)
(* Model of the task scheduler / executor and of the ingestion command of  *)
(* app_data_monitor (monitoring/utils/task_executor.py, models.py,         *)
(* management/commands/run_daily_task.py).                                 *)
(*                                                                         *)
(* The specifications share the variables:                                 *)
(*   Spec        the executor: triggers, worker threads and execution rows *)
(*   SpecPure    the pure functions, applied to bounded inputs             *)
(*   SpecIngest  one run of Command.handle of run_daily_task               *)
(*   SpecRetry   one call of a function wrapped by retry_on_failure        *)
(*   SpecFetch   one call of AppStoreConnectClient.get_analytics_data      *)
(*   SpecInstall the processing of the installs report, on bounded rows    *)
(*   SpecPlay    GooglePlayConsoleClient.get_statistics_data, on bounded   *)
(*               overview files                                            *)
(*   SpecStore   process_single_app run twice on the DataRecord table      *)
(*   SpecAnalytics  DataAnalyzer._calculate_percentage_change, on bounded  *)
(*               counts                                                    *)
(*   SpecAnomaly AnomalyDetector._check_single_rule and                    *)
(*               _calculate_severity, on bounded rules and values          *)
(*   SpecHung    the executor when a command returns only by its timeout   *)
(*   SpecLoop    TaskScheduler.start / stop and the scheduler loop         *)
(*   SpecInstances  the instance loops of the report processing, with      *)
(*               segment fetches that fail                                 *)
(*   SpecCapture the redirection of sys.stdout by concurrent executions    *)
(*   SpecRetryBudget  retry_execution over one ended execution             *)
(***************************************************************************)
EXTENDS Integers, Sequences, FiniteSets, TLC

VARIABLES
    executions,   \* the TaskExecution table: row id = index
    threads,      \* every call of the executor: its locals and position
    ticks,        \* number of scheduler ticks that found a schedule due
    now,          \* timezone.now(), in milliseconds
    schedules,    \* the TaskSchedule table: row id = index
    pureFn,       \* SpecPure: the function under evaluation
    pureIn,       \* SpecPure: its arguments
    pureOut,      \* SpecPure: its result
    pureDone,     \* SpecPure: the function has been applied
    run,          \* SpecIngest: the state of one Command.handle call
    wrapper,      \* SpecRetry: the locals of one call of the retry wrapper
    fetch,        \* SpecFetch: the locals of one get_analytics_data call
    store,        \* SpecStore: the DataRecord table and the pipeline runs
    sched,        \* SpecLoop: the TaskScheduler object, its loops and the clock
    proc          \* SpecCapture: sys.stdout and the executions that redirect it

execVars == <<executions, threads, ticks, now, schedules>>
pureVars == <<pureFn, pureIn, pureOut, pureDone>>
ingestVars == <<run>>
clientVars == <<wrapper, fetch, store, sched, proc>>
vars == <<executions, threads, ticks, now, schedules, pureFn, pureIn, pureOut, pureDone, run, wrapper, fetch, store, sched, proc>>

-----------------------------------------------------------------------------
(* Bounds of the model *)

MaxThreads == 2
MaxApps == 3

(* Python None in a nullable integer or foreign-key field *)
None == -1

(* timedelta.total_seconds() works on sub-second timestamps: 1000 ms = 1 s *)
MillisPerSecond == 1000

(* time.sleep(60) between two ticks of the scheduler loop *)
SleepSeconds == 60

(* what one pass of _check_and_execute_schedules takes, in milliseconds *)
CheckMillis == 500

(* The clock of the model moves with the scheduler: from one tick to the *)
(* next it advances by the sleep and the check                           *)
TickPeriod == SleepSeconds * MillisPerSecond + CheckMillis

-----------------------------------------------------------------------------
(* TaskSchedule rows.  The scheduler only reads them. *)

(* TaskSchedule(...) with the fields the scheduler and the executor read *)
TaskSchedule(id, app, frequency, hour, minute, weekday, day_of_month, is_active, retry_count, timeout_minutes) ==
    [ id              |-> id,
      app             |-> app,
      frequency       |-> frequency,
      hour            |-> hour,
      minute          |-> minute,
      weekday         |-> weekday,
      day_of_month    |-> day_of_month,
      is_active       |-> is_active,
      retry_count     |-> retry_count,
      timeout_minutes |-> timeout_minutes ]

(* The table of the model: a weekly schedule (Wednesday) over all apps, a *)
(* monthly one (the 15th) for app 1 and a disabled daily one, all at     *)
(* 03:30; their retry budgets are 1, 2 and 3, the timeout of the first   *)
(* is one minute                                                         *)
ScheduleTable ==
    << TaskSchedule(1, None, "weekly", 3, 30, 2, None, TRUE, 1, 1),
       TaskSchedule(2, 1, "monthly", 3, 30, None, 15, TRUE, 2, 30),
       TaskSchedule(3, 1, "daily", 3, 30, None, None, FALSE, 3, 30) >>

Schedules == DOMAIN ScheduleTable

ScheduleRow(s) == schedules[s]

(* The minutes at which the model's scheduler ticks: a datetime, as far as *)
(* the scheduler looks at it.  A tick at which nothing is due starts       *)
(* nothing and is left out.                                                *)
TickTimes ==
    { [weekday |-> 2, day |-> 15, hour |-> 3, minute |-> 30],
      [weekday |-> 2, day |-> 22, hour |-> 3, minute |-> 30],
      [weekday |-> 5, day |-> 15, hour |-> 3, minute |-> 30] }

-----------------------------------------------------------------------------
(* _should_execute_now that takes a weekly schedule as due on every day *)
ShouldExecuteNowAnyDay(schedule, current_time) ==
    IF schedule.hour # current_time.hour \/ schedule.minute # current_time.minute
    THEN FALSE
    ELSE IF schedule.frequency \in {"daily", "weekly"} THEN TRUE
    ELSE IF schedule.frequency = "monthly"
         THEN LET day == IF schedule.day_of_month # None THEN schedule.day_of_month ELSE 1
              IN  current_time.day = day
    ELSE FALSE

(* TaskScheduler._should_execute_now *)

ShouldExecuteNow(schedule, current_time) ==
    IF schedule.hour # current_time.hour \/ schedule.minute # current_time.minute
    THEN FALSE
    ELSE IF schedule.frequency = "daily" THEN TRUE
    ELSE IF schedule.frequency = "weekly"
         THEN LET weekday == IF schedule.weekday # None THEN schedule.weekday ELSE 0
              IN  current_time.weekday = weekday
    ELSE IF schedule.frequency = "monthly"
         THEN LET day == IF schedule.day_of_month # None THEN schedule.day_of_month ELSE 1
              IN  current_time.day = day
    ELSE FALSE

-----------------------------------------------------------------------------
(* TaskExecution rows *)

TerminalStatus == {"success", "failed", "timeout", "cancelled"}

(* a row that is created already running *)
NewExecutionRunning(schedule, trigger_type, app, target_date, retry_count) ==
    [ schedule           |-> schedule,
      trigger_type       |-> trigger_type,
      status             |-> "running",
      app                |-> app,
      target_date        |-> target_date,
      started_at         |-> None,
      completed_at       |-> None,
      duration_seconds   |-> None,
      success_count      |-> 0,
      error_count        |-> 0,
      alerts_generated   |-> 0,
      notifications_sent |-> 0,
      output_log         |-> <<>>,
      error_log          |-> <<>>,
      retry_count        |-> retry_count ]

(* TaskExecution.objects.create(...): the model's field defaults *)
NewExecution(schedule, trigger_type, app, target_date, retry_count) ==
    [ schedule           |-> schedule,
      trigger_type       |-> trigger_type,
      status             |-> "pending",
      app                |-> app,
      target_date        |-> target_date,
      started_at         |-> None,
      completed_at       |-> None,
      duration_seconds   |-> None,
      success_count      |-> 0,
      error_count        |-> 0,
      alerts_generated   |-> 0,
      notifications_sent |-> 0,
      output_log         |-> <<>>,
      error_log          |-> <<>>,
      retry_count        |-> retry_count ]

(* can_retry with the budget compared by <= *)
CanRetryInclusive(execution, budget) ==
    IF execution.schedule = None
    THEN FALSE
    ELSE execution.status \in {"failed", "timeout"} /\ execution.retry_count <= budget

(* TaskExecution.can_retry; budget is schedule.retry_count *)
CanRetry(execution, budget) ==
    IF execution.schedule = None
    THEN FALSE
    ELSE execution.status \in {"failed", "timeout"} /\ execution.retry_count < budget

(* TaskExecution.mark_started on the in-memory object; save() writes both fields *)
MarkStarted(execution, t) ==
    [execution EXCEPT !.status = "running", !.started_at = t]

(* int(timedelta.total_seconds()) truncates towards zero *)
WholeSeconds(ms) ==
    IF ms >= 0 THEN ms \div MillisPerSecond ELSE -((-ms) \div MillisPerSecond)

(* TaskExecution.mark_completed on the in-memory object *)
MarkCompleted(execution, success, output_log, error_log, stats, t) ==
    [execution EXCEPT
        !.completed_at       = t,
        !.duration_seconds   = IF execution.started_at # None
                               THEN WholeSeconds(t - execution.started_at)
                               ELSE execution.duration_seconds,
        !.status             = IF success THEN "success" ELSE "failed",
        !.output_log         = output_log,
        !.error_log          = error_log,
        !.success_count      = stats.success_count,
        !.error_count        = stats.error_count,
        !.alerts_generated   = stats.alerts_generated,
        !.notifications_sent = stats.notifications_sent]

-----------------------------------------------------------------------------
(* Output of run_daily_task, line by line; a line is its label and number *)

Line(k, v) == [key |-> k, val |-> v]

(* Command.print_summary *)
PrintSummary(st) ==
    << Line("total", st.total_apps),
       Line("success", st.success_count),
       Line("error", st.error_count),
       Line("alerts", st.alerts_generated),
       Line("notifications", st.notifications_sent) >>

(* TaskExecutor._parse_execution_stats: the last line of each label wins *)
RECURSIVE ParseLines(_, _)
ParseLines(lines, stats) ==
    IF lines = <<>> THEN stats
    ELSE LET line == Head(lines)
             next == IF line.key = "success"
                     THEN [stats EXCEPT !.success_count = line.val]
                     ELSE IF line.key = "error"
                     THEN [stats EXCEPT !.error_count = line.val]
                     ELSE IF line.key = "alerts"
                     THEN [stats EXCEPT !.alerts_generated = line.val]
                     ELSE IF line.key = "notifications"
                     THEN [stats EXCEPT !.notifications_sent = line.val]
                     ELSE stats
         IN  ParseLines(Tail(lines), next)

ParseExecutionStats(output_log) ==
    ParseLines(output_log,
               [success_count |-> 0, error_count |-> 0,
                alerts_generated |-> 0, notifications_sent |-> 0])

-----------------------------------------------------------------------------
(* What call_command('run_daily_task') can do to its caller *)

SummaryStats ==
    [total_apps |-> MaxApps, success_count |-> MaxApps - 1, error_count |-> 1,
     alerts_generated |-> 2, notifications_sent |-> 3]

Tracebacks(n) == [i \in 1..n |-> Line("traceback", i)]

Outcome(raised, out, err) == [raised |-> raised, out |-> out, err |-> err]

(* SIGALRM is only armed in the main thread (lines 165-167), so only there *)
(* the handler can raise TimeoutError into the command, once the budget    *)
(* has elapsed                                                             *)
TimeoutOutcomes(main, timeout_minutes, elapsed) ==
    IF main /\ elapsed >= timeout_minutes * 60 * MillisPerSecond
    THEN { Outcome("TimeoutError", <<>>, <<>>) }
    ELSE {}

(* The command returns with its summary, or early without one (no app in   *)
(* scope, malformed date); it raises before any output or while            *)
(* print_summary is writing.                                               *)
CommandOutcomes(main, timeout_minutes, elapsed) ==
    { Outcome("none", PrintSummary(SummaryStats), Tracebacks(SummaryStats.error_count)),
      Outcome("none", <<>>, <<>>),
      Outcome("CommandError", <<>>, <<>>),
      Outcome("Exception", SubSeq(PrintSummary(SummaryStats), 1, 3),
              Tracebacks(SummaryStats.error_count)) }
    \cup TimeoutOutcomes(main, timeout_minutes, elapsed)

-----------------------------------------------------------------------------
(* Threads: one per call of an entry point of TaskExecutor *)

NoObject == [status |-> "none"]

InitialStats ==
    [success_count |-> 0, error_count |-> 0, alerts_generated |-> 0,
     notifications_sent |-> 0, errors |-> 0]

NewThread(entry, trigger_type, main, tick, schedule, source, target_date, timeout_minutes, pc, exec, mem) ==
    [ entry        |-> entry,
      trigger_type |-> trigger_type,
      main         |-> main,
      tick         |-> tick,
      schedule     |-> schedule,
      source       |-> source,
      target_date  |-> target_date,
      timeout_minutes |-> timeout_minutes,
      pc           |-> pc,
      exec         |-> exec,
      mem          |-> mem,
      success      |-> FALSE,
      stats        |-> InitialStats,
      out          |-> <<>>,
      err          |-> <<>>,
      caught       |-> "none",
      calls        |-> 0,
      result       |-> "none" ]

(* execute_schedule_manual as the execute_task command calls it: in the *)
(* main thread of its process, with --date                              *)
ManualCallers ==
    { [main |-> TRUE, target_date |-> 1] }

DefaultTimeoutMinutes == 30

RECURSIVE InOrder(_)
InOrder(S) ==
    IF S = {} THEN <<>>
    ELSE LET m == CHOOSE x \in S : \A y \in S : x <= y
         IN  <<m>> \o InOrder(S \ {m})

(* TaskSchedule.objects.filter(is_active=True) that are due at current_minute *)
DueSchedules(current_minute) ==
    { s \in Schedules :
        ScheduleRow(s).is_active /\ ShouldExecuteNow(ScheduleRow(s), current_minute) }

(* TaskExecution.objects.filter(schedule=schedule, status='running').first() *)
RunningExecutions(schedule) ==
    { e \in 1..Len(executions) :
        executions[e].schedule = schedule /\ executions[e].status = "running" }

-----------------------------------------------------------------------------
(* Entry points *)

(* a tick that runs the due schedules itself: it only starts once every *)
(* execution launched before has returned                               *)
CheckAndExecuteSchedulesJoined ==
    /\ \A i \in 1..Len(threads) : threads[i].pc = "done"
    /\ \E current_minute \in TickTimes :
         LET due == InOrder(DueSchedules(current_minute))
         IN  /\ due # <<>>
             /\ Len(threads) + Len(due) <= MaxThreads
             /\ threads' = threads \o
                  [k \in 1..Len(due) |->
                     NewThread("execute_schedule_auto", "scheduled", FALSE, ticks + 1,
                               due[k], 0, None,
                               ScheduleRow(due[k]).timeout_minutes, "guard", 0, NoObject)]
    /\ ticks' = ticks + 1
    /\ now' = now + TickPeriod
    /\ UNCHANGED <<executions, schedules, pureVars, ingestVars, clientVars>>

(* TaskScheduler._check_and_execute_schedules: one thread per due schedule, *)
(* started and not joined                                                   *)
CheckAndExecuteSchedules ==
    /\ \E current_minute \in TickTimes :
         LET due == InOrder(DueSchedules(current_minute))
         IN  /\ due # <<>>
             /\ Len(threads) + Len(due) <= MaxThreads
             /\ threads' = threads \o
                  [k \in 1..Len(due) |->
                     NewThread("execute_schedule_auto", "scheduled", FALSE, ticks + 1,
                               due[k], 0, None,
                               ScheduleRow(due[k]).timeout_minutes, "guard", 0, NoObject)]
    /\ ticks' = ticks + 1
    /\ now' = now + TickPeriod
    /\ UNCHANGED <<executions, schedules, pureVars, ingestVars, clientVars>>

(* TaskExecutor.execute_schedule_manual, from the admin action or a command *)
ExecuteScheduleManual ==
    /\ Len(threads) < MaxThreads
    /\ \E s \in Schedules, caller \in ManualCallers :
         threads' = Append(threads,
             NewThread("execute_schedule_manual", "manual", caller.main, 0, s, 0,
                       caller.target_date, ScheduleRow(s).timeout_minutes,
                       "guard", 0, NoObject))
    /\ UNCHANGED <<executions, ticks, now, schedules, pureVars, ingestVars, clientVars>>

(* TaskExecutor.execute_manual_task: no schedule, the row is created at once *)
ExecuteManualTask ==
    /\ Len(threads) < MaxThreads
    /\ \E app \in {None} :
         LET execution == NewExecution(None, "manual", app, None, 0)
         IN  /\ executions' = Append(executions, execution)
             /\ threads' = Append(threads,
                   NewThread("execute_manual_task", "manual", TRUE, 0, None, 0,
                             None, DefaultTimeoutMinutes, "start",
                             Len(executions) + 1, execution))
    /\ UNCHANGED <<ticks, now, schedules, pureVars, ingestVars, clientVars>>

(* self.schedule.retry_count, read only when the execution has a schedule *)
RetryBudget(execution) ==
    IF execution.schedule = None THEN None
    ELSE ScheduleRow(execution.schedule).retry_count

(* a retry that puts the failed row itself back to pending *)
RetryExecutionInPlace ==
    /\ Len(threads) < MaxThreads
    /\ \E e \in 1..Len(executions) :
         LET execution == executions[e]
             main == FALSE
         IN  IF ~CanRetry(execution, RetryBudget(execution))
             THEN /\ threads' = Append(threads,
                        [NewThread("retry_execution", "retry", main, 0,
                                   execution.schedule, e, execution.target_date,
                                   DefaultTimeoutMinutes, "done", 0, NoObject)
                           EXCEPT !.result = "False"])
                  /\ UNCHANGED executions
             ELSE LET retry_execution ==
                          [execution EXCEPT !.status = "pending",
                                            !.trigger_type = "retry",
                                            !.retry_count = @ + 1]
                  IN  /\ executions' = [executions EXCEPT ![e] = retry_execution]
                      /\ threads' = Append(threads,
                            NewThread("retry_execution", "retry", main, 0,
                                      execution.schedule, e, execution.target_date,
                                      DefaultTimeoutMinutes, "start", e, retry_execution))
    /\ UNCHANGED <<ticks, now, schedules, pureVars, ingestVars, clientVars>>

(* TaskExecutor.retry_execution on a row loaded from the table, as the     *)
(* admin action calls it (in the thread that serves the request)           *)
RetryExecution ==
    /\ Len(threads) < MaxThreads
    /\ \E e \in 1..Len(executions) :
         LET execution == executions[e]
             main == FALSE
         IN  IF ~CanRetry(execution, RetryBudget(execution))
             THEN /\ threads' = Append(threads,
                        [NewThread("retry_execution", "retry", main, 0,
                                   execution.schedule, e, execution.target_date,
                                   DefaultTimeoutMinutes, "done", 0, NoObject)
                           EXCEPT !.result = "False"])
                  /\ UNCHANGED executions
             ELSE LET retry_execution ==
                          NewExecution(execution.schedule, "retry", execution.app,
                                       execution.target_date, execution.retry_count + 1)
                  IN  /\ executions' = Append(executions, retry_execution)
                      /\ threads' = Append(threads,
                            NewThread("retry_execution", "retry", main, 0,
                                      execution.schedule, e, execution.target_date,
                                      DefaultTimeoutMinutes, "start",
                                      Len(executions) + 1, retry_execution))
    /\ UNCHANGED <<ticks, now, schedules, pureVars, ingestVars, clientVars>>

-----------------------------------------------------------------------------
(* Steps of a thread *)

(* _execute_schedule without the query for a running execution *)
ExecuteScheduleUnguarded(i) ==
    /\ threads[i].pc = "guard"
    /\ LET schedule == ScheduleRow(threads[i].schedule)
           execution == NewExecution(schedule.id, threads[i].trigger_type, schedule.app,
                                     threads[i].target_date, 0)
       IN  IF ~schedule.is_active
           THEN /\ threads' = [threads EXCEPT ![i].pc = "done", ![i].result = "False"]
                /\ UNCHANGED executions
           ELSE /\ executions' = Append(executions, execution)
                /\ threads' = [threads EXCEPT ![i].pc = "start",
                                              ![i].exec = Len(executions) + 1,
                                              ![i].mem = execution]
    /\ UNCHANGED <<ticks, now, schedules, pureVars, ingestVars, clientVars>>

(* TaskExecutor._execute_schedule, lines 86-107: the two early returns,    *)
(* else the pending row.  The query and the insert are one step: a pending *)
(* row is read by no other thread's guard or retry check.                  *)
ExecuteSchedule(i) ==
    /\ threads[i].pc = "guard"
    /\ LET schedule == ScheduleRow(threads[i].schedule)
           execution == NewExecution(schedule.id, threads[i].trigger_type, schedule.app,
                                     threads[i].target_date, 0)
       IN  IF ~schedule.is_active \/ RunningExecutions(schedule.id) # {}
           THEN /\ threads' = [threads EXCEPT ![i].pc = "done", ![i].result = "False"]
                /\ UNCHANGED executions
           ELSE /\ executions' = Append(executions, execution)
                /\ threads' = [threads EXCEPT ![i].pc = "start",
                                              ![i].exec = Len(executions) + 1,
                                              ![i].mem = execution]
    /\ UNCHANGED <<ticks, now, schedules, pureVars, ingestVars, clientVars>>

(* TaskExecutor._execute_task, lines 123-127 *)
ExecuteTaskStart(i) ==
    /\ threads[i].pc = "start"
    /\ LET execution == MarkStarted(threads[i].mem, now)
       IN  /\ threads' = [threads EXCEPT ![i].pc = "call", ![i].mem = execution]
           /\ executions' = [executions EXCEPT
                                ![threads[i].exec].status = execution.status,
                                ![threads[i].exec].started_at = execution.started_at]
    /\ UNCHANGED <<ticks, schedules, now, pureVars, ingestVars, clientVars>>

(* dict.update with the parsed statistics: the four counters are replaced *)
StatsUpdate(stats, parsed) ==
    [stats EXCEPT !.success_count = parsed.success_count,
                  !.error_count = parsed.error_count,
                  !.alerts_generated = parsed.alerts_generated,
                  !.notifications_sent = parsed.notifications_sent]

(* a finalization that leaves an execution marked timeout as it is *)
FinalizeUnlessTimeout(execution, success, output_log, error_log, stats, t) ==
    IF execution.status # "timeout"
    THEN MarkCompleted(execution, success, output_log, error_log, stats, t)
    ELSE execution

(* TaskExecutor._execute_task, lines 221-234: both branches call mark_completed *)
Finalize(execution, success, output_log, error_log, stats, t) ==
    IF execution.status # "timeout"
    THEN MarkCompleted(execution, success, output_log, error_log, stats, t)
    ELSE MarkCompleted(execution, FALSE, output_log, error_log, stats, t)

(* the columns written by save(update_fields=[...]) in mark_completed *)
SaveCompleted(row, execution) ==
    [row EXCEPT
        !.status             = execution.status,
        !.completed_at       = execution.completed_at,
        !.duration_seconds   = execution.duration_seconds,
        !.output_log         = execution.output_log,
        !.error_log          = execution.error_log,
        !.success_count      = execution.success_count,
        !.error_count        = execution.error_count,
        !.alerts_generated   = execution.alerts_generated,
        !.notifications_sent = execution.notifications_sent]

(* TaskExecutor._execute_task, lines 158-208: the handlers around the *)
(* command; t is the thread's record, the result its record afterwards *)
AfterCommand(t, outcome) ==
    [t EXCEPT
        !.calls   = @ + 1,
        !.out     = outcome.out,
        !.err     = outcome.err,
        !.caught  = outcome.raised,
        !.success = (outcome.raised = "none"),
        !.stats   = [@ EXCEPT
                        !.errors = IF outcome.raised = "none" THEN @ ELSE @ + 1,
                        !.error_count =
                            IF outcome.raised \in {"CommandError", "Exception"}
                            THEN 1 ELSE @],
        !.mem     = IF outcome.raised = "TimeoutError"
                    THEN [@ EXCEPT !.status = "timeout"] ELSE @]

(* TaskExecutor._execute_task, lines 210-239: t is the thread after the *)
(* command, at is timezone.now() inside mark_completed                  *)
AfterFinalize(t, at) ==
    LET stats == StatsUpdate(t.stats, ParseExecutionStats(t.out))
    IN  [t EXCEPT
            !.pc     = "done",
            !.stats  = stats,
            !.mem    = Finalize(t.mem, t.success, t.out, t.err, stats, at),
            !.result = IF t.success THEN "True" ELSE "False"]

(* TaskExecutor._execute_task, lines 130-239: the command returns or raises *)
(* and the execution is finalized.  A thread that stays at "call" is a run  *)
(* that has not returned.                                                   *)
ExecuteTaskRun(i) ==
    /\ threads[i].pc = "call"
    /\ \E outcome \in CommandOutcomes(threads[i].main, threads[i].timeout_minutes,
                                       now - threads[i].mem.started_at) :
         LET t == AfterFinalize(AfterCommand(threads[i], outcome), now)
         IN  /\ threads' = [threads EXCEPT ![i] = t]
             /\ executions' = [executions EXCEPT
                                  ![threads[i].exec] = SaveCompleted(@, t.mem)]
    /\ UNCHANGED <<ticks, now, schedules, pureVars, ingestVars, clientVars>>

-----------------------------------------------------------------------------
(* The executor *)

NoRun == [pc |-> "none"]

PureIdle ==
    /\ pureFn = "none"
    /\ pureIn = <<>>
    /\ pureOut = <<>>
    /\ pureDone = FALSE

ProcessIdle ==
    /\ sched = [pc |-> "none"]
    /\ proc = [pc |-> "none"]

ClientIdle ==
    /\ wrapper = [pc |-> "none"]
    /\ fetch = [pc |-> "none"]
    /\ store = [pc |-> "none"]
    /\ ProcessIdle

ExecIdle ==
    /\ executions = <<>>
    /\ threads = <<>>
    /\ ticks = 0
    /\ now = 0
    /\ schedules = ScheduleTable

Init ==
    /\ executions = <<>>
    /\ threads = <<>>
    /\ ticks = 0
    /\ now = 0
    /\ schedules = ScheduleTable
    /\ PureIdle
    /\ run = NoRun
    /\ ClientIdle

Next ==
    \/ CheckAndExecuteSchedules
    \/ ExecuteScheduleManual
    \/ ExecuteManualTask
    \/ RetryExecution
    \/ \E i \in 1..Len(threads) : ExecuteSchedule(i)
    \/ \E i \in 1..Len(threads) : ExecuteTaskStart(i)
    \/ \E i \in 1..Len(threads) : ExecuteTaskRun(i)

Spec == Init /\ [][Next]_vars

-----------------------------------------------------------------------------
(* The pure functions, applied to bounded inputs *)

STATUS_CHOICES == {"pending", "running", "success", "failed", "timeout", "cancelled"}

CanRetryInputs ==
    { [NewExecution(s, "scheduled", None, None, rc) EXCEPT !.status = st]
        : s \in {None} \cup Schedules, st \in STATUS_CHOICES, rc \in 0..4 }

ShouldExecuteInputs ==
    { [schedule |-> TaskSchedule(1, None, f, h, m, wd, dom, TRUE, 3, 30),
       current_time |-> [weekday |-> twd, day |-> td, hour |-> th, minute |-> tm]]
        : f \in {"daily", "weekly", "monthly"}, h \in {3, 23}, m \in {0, 30},
          wd \in {None, 0, 2, 6}, dom \in {None, 1, 15},
          twd \in 0..6, td \in {1, 15, 16}, th \in {0, 3, 23}, tm \in {0, 30} }

ApplyCanRetry ==
    /\ pureFn = "can_retry"
    /\ ~pureDone
    /\ pureOut' = CanRetry(pureIn, RetryBudget(pureIn))
    /\ pureDone' = TRUE
    /\ UNCHANGED <<pureFn, pureIn, execVars, ingestVars, clientVars>>

ApplyShouldExecuteNow ==
    /\ pureFn = "should_execute_now"
    /\ ~pureDone
    /\ pureOut' = ShouldExecuteNow(pureIn.schedule, pureIn.current_time)
    /\ pureDone' = TRUE
    /\ UNCHANGED <<pureFn, pureIn, execVars, ingestVars, clientVars>>

InitPure ==
    /\ ExecIdle
    /\ run = NoRun
    /\ ClientIdle
    /\ \/ pureFn = "can_retry" /\ pureIn \in CanRetryInputs
       \/ pureFn = "should_execute_now" /\ pureIn \in ShouldExecuteInputs
    /\ pureOut = <<>>
    /\ pureDone = FALSE

NextPure ==
    \/ ApplyCanRetry
    \/ ApplyShouldExecuteNow

SpecPure == InitPure /\ [][NextPure]_vars

-----------------------------------------------------------------------------
(* One run of Command.handle of run_daily_task *)

Apps == 1..MaxApps

(* What the environment does to process_single_app for one app *)
AppBehaviours ==
    {"ok", "anomaly", "missing_credential", "fetch_error", "parse_error",
     "persistence_error"}

(* Command.process_single_app: it raises, or returns with the counters of *)
(* the alerts it logged and the notifications it sent                     *)
ProcessSingleApp(behaviour, stats, skip_notifications) ==
    IF behaviour \in {"missing_credential", "fetch_error", "parse_error",
                      "persistence_error"}
    THEN [raised |-> TRUE, stats |-> stats]
    ELSE IF behaviour = "anomaly"
    THEN [raised |-> FALSE,
          stats |-> [stats EXCEPT
                        !.alerts_generated = @ + 1,
                        !.notifications_sent = IF skip_notifications THEN @ ELSE @ + 1]]
    ELSE [raised |-> FALSE, stats |-> stats]

(* App.objects.filter(is_active=True[, id=app_id]), in id order *)
AppsInScope(is_active, app_id) ==
    InOrder({ a \in Apps : is_active[a] /\ (app_id = None \/ a = app_id) })

NewRun(is_active, app_id, date_ok, skip_notifications) ==
    [ pc                 |-> "start",
      is_active          |-> is_active,
      app_id             |-> app_id,
      date_ok            |-> date_ok,
      skip_notifications |-> skip_notifications,
      apps               |-> <<>>,
      idx                |-> 0,
      attempts           |-> [a \in Apps |-> 0],
      stats              |-> [total_apps |-> 0, success_count |-> 0, error_count |-> 0,
                              alerts_generated |-> 0, notifications_sent |-> 0],
      errors             |-> <<>>,
      error_notifications |-> 0,
      out                |-> <<>>,
      err                |-> <<>> ]

(* Command.handle, lines 39-92: options, the apps in scope, the counters *)
HandleStart ==
    /\ run.pc = "start"
    /\ LET apps == AppsInScope(run.is_active, run.app_id)
       IN  IF ~run.date_ok \/ apps = <<>>
           THEN run' = [run EXCEPT !.pc = "done"]
           ELSE run' = [run EXCEPT !.pc = "loop", !.apps = apps, !.idx = 1,
                                   !.stats.total_apps = Len(apps)]
    /\ UNCHANGED <<execVars, pureVars, clientVars>>

(* a loop without the try/except: the first failing app ends the run *)
HandleAppUnprotected ==
    /\ run.pc = "loop"
    /\ run.idx <= Len(run.apps)
    /\ \E behaviour \in AppBehaviours :
         LET app == run.apps[run.idx]
             r == ProcessSingleApp(behaviour, run.stats, run.skip_notifications)
         IN  IF ~r.raised
             THEN run' = [run EXCEPT
                            !.idx = @ + 1,
                            !.attempts[app] = @ + 1,
                            !.stats = [r.stats EXCEPT !.success_count = @ + 1]]
             ELSE run' = [run EXCEPT
                            !.pc = "done",
                            !.attempts[app] = @ + 1,
                            !.err = Append(@, Line("traceback", app))]
    /\ UNCHANGED <<execVars, pureVars, clientVars>>

(* Command.handle, lines 95-110: one pass of the loop over the apps *)
HandleApp ==
    /\ run.pc = "loop"
    /\ run.idx <= Len(run.apps)
    /\ \E behaviour \in AppBehaviours :
         LET app == run.apps[run.idx]
             r == ProcessSingleApp(behaviour, run.stats, run.skip_notifications)
         IN  IF ~r.raised
             THEN run' = [run EXCEPT
                            !.idx = @ + 1,
                            !.attempts[app] = @ + 1,
                            !.stats = [r.stats EXCEPT !.success_count = @ + 1]]
             ELSE run' = [run EXCEPT
                            !.idx = @ + 1,
                            !.attempts[app] = @ + 1,
                            !.stats = [r.stats EXCEPT !.error_count = @ + 1],
                            !.errors = Append(@, [app |-> app, error |-> behaviour]),
                            !.err = Append(@, Line("traceback", app)),
                            !.error_notifications =
                                IF run.skip_notifications THEN @ ELSE @ + 1]
    /\ UNCHANGED <<execVars, pureVars, clientVars>>

(* Command.handle, line 113: print_summary after the last app *)
HandleSummary ==
    /\ run.pc = "loop"
    /\ run.idx > Len(run.apps)
    /\ run' = [run EXCEPT !.pc = "done", !.out = PrintSummary(run.stats)]
    /\ UNCHANGED <<execVars, pureVars, clientVars>>

InitIngest ==
    /\ ExecIdle
    /\ PureIdle
    /\ ClientIdle
    /\ \E is_active \in [Apps -> BOOLEAN], app_id \in {None} \cup Apps,
          date_ok \in BOOLEAN, skip_notifications \in BOOLEAN :
         run = NewRun(is_active, app_id, date_ok, skip_notifications)

NextIngest ==
    \/ HandleStart
    \/ HandleApp
    \/ HandleSummary

SpecIngest == InitIngest /\ [][NextIngest]_vars

-----------------------------------------------------------------------------
(* Properties of the executor, checked under Spec *)

Threads == 1..Len(threads)
Executions == 1..Len(executions)

(* C1: in every reachable state each schedule has at most one execution *)
(* with status running                                                  *)
AtMostOneRunningPerSchedule ==
    \A s \in Schedules : Cardinality(RunningExecutions(s)) <= 1

(* C2: a call of _execute_schedule that finds the schedule inactive, or an *)
(* execution of it running, returns False, creates no row and never calls  *)
(* the ingestion command                                                   *)
GuardSkipsTrigger ==
    /\ [][\A i \in Threads :
            ( /\ threads[i].pc = "guard"
              /\ threads'[i].pc # "guard"
              /\ \/ ~schedules[threads[i].schedule].is_active
                 \/ \E e \in Executions :
                       /\ executions[e].schedule = threads[i].schedule
                       /\ executions[e].status = "running" )
            => ( /\ threads'[i].pc = "done"
                 /\ threads'[i].result = "False"
                 /\ threads'[i].exec = 0
                 /\ threads'[i].calls = 0
                 /\ executions' = executions )]_vars
    /\ [](\A i \in Threads :
            (threads[i].pc = "done" /\ threads[i].exec = 0) => threads[i].calls = 0)

(* C2 witness: a trigger of an active schedule was skipped while an execution *)
(* of that schedule is running                                                *)
GuardSkipSeen ==
    \E i \in Threads :
        /\ threads[i].entry \in {"execute_schedule_auto", "execute_schedule_manual"}
        /\ threads[i].pc = "done"
        /\ threads[i].result = "False"
        /\ threads[i].exec = 0
        /\ schedules[threads[i].schedule].is_active
        /\ RunningExecutions(threads[i].schedule) # {}

(* C3: a row is created pending, moves pending -> running -> terminal, and *)
(* no step changes any field of a row that holds a terminal status         *)
StatusLifecycle ==
    [][ /\ Len(executions') >= Len(executions)
        /\ \A e \in Executions :
             LET old == executions[e]
                 new == executions'[e]
             IN  /\ \/ new.status = old.status
                    \/ old.status = "pending" /\ new.status = "running"
                    \/ old.status = "running" /\ new.status \in TerminalStatus
                 /\ old.status \in TerminalStatus => new = old
        /\ \A e \in (Len(executions) + 1)..Len(executions') :
             executions'[e].status = "pending" ]_vars

(* C3 witness: a row that ended failed has been retried and the retry has *)
(* run to its end                                                         *)
TerminalRowRetried ==
    \E i \in Threads :
        /\ threads[i].entry = "retry_execution"
        /\ threads[i].pc = "done"
        /\ threads[i].exec # 0
        /\ executions[threads[i].source].status = "failed"
        /\ executions[threads[i].exec].status \in TerminalStatus

(* C4: an execution whose command was ended by TimeoutError is stored with *)
(* status timeout                                                          *)
TimeoutIsStored ==
    \A i \in Threads :
        (threads[i].pc = "done" /\ threads[i].caught = "TimeoutError")
        => executions[threads[i].exec].status = "timeout"

(* C6: retry_execution on a retryable row appends exactly one row: same *)
(* schedule, app and target date, trigger retry, retry_count + 1, and   *)
(* changes no other row; on any other row it creates nothing and        *)
(* returns False                                                        *)
RetryCreatesOneRow ==
    [][ ( /\ Len(threads') = Len(threads) + 1
          /\ threads'[Len(threads')].entry = "retry_execution" )
        => LET t == threads'[Len(threads')]
               old == executions[t.source]
               retryable ==
                   /\ old.schedule # None
                   /\ old.status \in {"failed", "timeout"}
                   /\ old.retry_count < schedules[old.schedule].retry_count
           IN  IF retryable
               THEN /\ Len(executions') = Len(executions) + 1
                    /\ SubSeq(executions', 1, Len(executions)) = executions
                    /\ t.exec = Len(executions')
                    /\ LET new == executions'[Len(executions')]
                       IN  /\ new.schedule = old.schedule
                           /\ new.app = old.app
                           /\ new.target_date = old.target_date
                           /\ new.trigger_type = "retry"
                           /\ new.retry_count = old.retry_count + 1
                           /\ new.status = "pending"
               ELSE /\ executions' = executions
                    /\ t.pc = "done"
                    /\ t.result = "False"
                    /\ t.exec = 0 ]_vars

(* C6 witness: a retry row exists for a failed execution with a target date, *)
(* and a retry of a row that cannot be retried has been refused              *)
RetryRowSeen ==
    \E i \in Threads :
        /\ threads[i].entry = "retry_execution"
        /\ threads[i].exec # 0
        /\ executions[threads[i].exec].trigger_type = "retry"
        /\ executions[threads[i].exec].retry_count = 1
        /\ executions[threads[i].source].status = "failed"
        /\ executions[threads[i].source].retry_count = 0

(* C8: a tick depends on no thread's position: it is enabled whenever the *)
(* model has room for the threads it starts, it starts one thread per due *)
(* schedule and returns, changing no thread and no row; and a started     *)
(* thread can take its steps up to the command whatever the others do     *)
TickNeverWaits ==
    /\ []( (\E t \in TickTimes :
              /\ DueSchedules(t) # {}
              /\ Len(threads) + Cardinality(DueSchedules(t)) <= MaxThreads)
           => ENABLED CheckAndExecuteSchedules )
    /\ [][ ticks' # ticks
           => /\ executions' = executions
              /\ SubSeq(threads', 1, Len(threads)) = threads
              /\ \E t \in TickTimes :
                   /\ Len(threads') = Len(threads) + Cardinality(DueSchedules(t))
                   /\ { threads'[k].schedule : k \in (Len(threads) + 1)..Len(threads') }
                        = DueSchedules(t)
              /\ \A k \in (Len(threads) + 1)..Len(threads') :
                   /\ threads'[k].pc = "guard"
                   /\ threads'[k].tick = ticks' ]_vars
    /\ [](\A i \in Threads :
            /\ threads[i].pc = "guard" => ENABLED ExecuteSchedule(i)
            /\ threads[i].pc = "start" => ENABLED ExecuteTaskStart(i))

(* C8 witness: the execution started by one tick has not returned, and a *)
(* thread started by a later tick for another schedule has run to its end *)
LaterTickRanPastHungRun ==
    \E i, j \in Threads :
        /\ threads[i].tick >= 1
        /\ threads[i].pc = "call"
        /\ threads[j].tick > threads[i].tick
        /\ threads[j].schedule # threads[i].schedule
        /\ threads[j].pc = "done"
        /\ threads[j].result = "True"

(* C9: once the command of an execution has returned or raised, its row   *)
(* holds a terminal status, completed_at >= started_at, the whole seconds *)
(* between them, the counters, and the captured output and error log; a   *)
(* row is running only while its command has not returned                 *)
FinalizedAfterCommand ==
    /\ \A i \in Threads :
         (threads[i].pc = "done" /\ threads[i].exec # 0)
         => LET row == executions[threads[i].exec]
                parsed == ParseExecutionStats(threads[i].out)
            IN  /\ threads[i].calls = 1
                /\ row.status \in TerminalStatus
                /\ row.started_at # None
                /\ row.completed_at >= row.started_at
                /\ row.duration_seconds * MillisPerSecond <= row.completed_at - row.started_at
                /\ row.completed_at - row.started_at < (row.duration_seconds + 1) * MillisPerSecond
                /\ row.output_log = threads[i].out
                /\ row.error_log = threads[i].err
                /\ row.success_count = parsed.success_count
                /\ row.error_count = parsed.error_count
                /\ row.alerts_generated = parsed.alerts_generated
                /\ row.notifications_sent = parsed.notifications_sent
    /\ \A e \in Executions :
         executions[e].status = "running"
         => \E i \in Threads : threads[i].exec = e /\ threads[i].pc = "call"

(* C9 witness: an execution whose command raised after a minute is stored *)
(* failed with a duration of 60 seconds                                   *)
RaisedRunFinalized ==
    \E i \in Threads :
        /\ threads[i].pc = "done"
        /\ threads[i].caught = "Exception"
        /\ executions[threads[i].exec].status = "failed"
        /\ executions[threads[i].exec].duration_seconds = SleepSeconds
        /\ executions[threads[i].exec].output_log # <<>>

-----------------------------------------------------------------------------
(* Properties of the pure functions, checked under SpecPure *)

(* C5: can_retry is true exactly when the execution has a schedule, its   *)
(* status is failed or timeout and its retry_count is below the schedule's *)
(* retry_count: 2 against 3 is retryable, 3 against 3 is not               *)
CanRetryIsTheRule ==
    (pureFn = "can_retry" /\ pureDone)
    => /\ pureOut = ( /\ pureIn.schedule # None
                      /\ pureIn.status \in {"failed", "timeout"}
                      /\ pureIn.retry_count < ScheduleTable[pureIn.schedule].retry_count )
       /\ (pureIn.schedule = None) => (pureOut = FALSE)
       /\ (pureIn.schedule = 3 /\ pureIn.status = "failed" /\ pureIn.retry_count = 2)
          => (pureOut = TRUE)
       /\ (pureIn.schedule = 3 /\ pureIn.status = "failed" /\ pureIn.retry_count = 3)
          => (pureOut = FALSE)

(* C5 witness: failed, retry_count 2, budget 3 has been found retryable *)
CanRetryTwoOfThree ==
    /\ pureFn = "can_retry"
    /\ pureDone
    /\ pureIn.schedule = 3
    /\ ScheduleTable[3].retry_count = 3
    /\ pureIn.status = "failed"
    /\ pureIn.retry_count = 2
    /\ pureOut = TRUE

(* the frequency condition with the weekday and day of month as configured *)
FrequencyAsConfigured(schedule, t) ==
    \/ schedule.frequency = "daily"
    \/ schedule.frequency = "weekly" /\ t.weekday = schedule.weekday
    \/ schedule.frequency = "monthly" /\ t.day = schedule.day_of_month

(* the frequency condition with Monday and the 1st standing in for a *)
(* weekday or day of month that is not configured                    *)
FrequencyWithDefaults(schedule, t) ==
    \/ schedule.frequency = "daily"
    \/ /\ schedule.frequency = "weekly"
       /\ t.weekday = (IF schedule.weekday = None THEN 0 ELSE schedule.weekday)
    \/ /\ schedule.frequency = "monthly"
       /\ t.day = (IF schedule.day_of_month = None THEN 1 ELSE schedule.day_of_month)

(* the minute ticks of the seven days that begin with the day of start *)
WeekOfTicks(start) ==
    { [weekday |-> (start.weekday + d) % 7, day |-> ((start.day - 1 + d) % 31) + 1,
       hour |-> h, minute |-> m] : d \in 0..6, h \in 0..23, m \in 0..59 }

(* C7, as stated: _should_execute_now is true iff hour and minute are equal *)
(* and the frequency condition holds for the configured weekday or day      *)
ShouldExecuteAsConfigured ==
    (pureFn = "should_execute_now" /\ pureDone)
    => pureOut = ( /\ pureIn.schedule.hour = pureIn.current_time.hour
                   /\ pureIn.schedule.minute = pureIn.current_time.minute
                   /\ FrequencyAsConfigured(pureIn.schedule, pureIn.current_time) )

(* C7, amended: the same with Monday (0) for a weekly schedule without a   *)
(* weekday and the 1st for a monthly schedule without a day of month; over *)
(* the minute ticks of one week a weekly schedule is due exactly once      *)
ShouldExecuteWithDefaults ==
    (pureFn = "should_execute_now" /\ pureDone)
    => /\ pureOut = ( /\ pureIn.schedule.hour = pureIn.current_time.hour
                      /\ pureIn.schedule.minute = pureIn.current_time.minute
                      /\ FrequencyWithDefaults(pureIn.schedule, pureIn.current_time) )
       /\ ( /\ pureIn.schedule.frequency = "weekly"
            /\ pureIn.current_time.hour = 0
            /\ pureIn.current_time.minute = 0 )
          => Cardinality({ t \in WeekOfTicks(pureIn.current_time) :
                             ShouldExecuteNow(pureIn.schedule, t) }) = 1

(* C7 witness: a weekly schedule for Wednesday 03:30 has been found due on *)
(* a Wednesday at 03:30                                                    *)
WeeklyScheduleDue ==
    /\ pureFn = "should_execute_now"
    /\ pureDone
    /\ pureIn.schedule.frequency = "weekly"
    /\ pureIn.schedule.weekday = 2
    /\ pureIn.current_time.weekday = 2
    /\ pureIn.schedule.hour = 3 /\ pureIn.current_time.hour = 3
    /\ pureIn.schedule.minute = 30 /\ pureIn.current_time.minute = 30
    /\ pureOut = TRUE

-----------------------------------------------------------------------------
(* Properties of the ingestion run, checked under SpecIngest *)

(* C10: the loop attempts the apps in scope one by one, each once, whatever *)
(* the earlier ones did; success_count + error_count counts the attempted   *)
(* apps, the error list has one entry per failed app, and a run that got to *)
(* its summary has attempted every app in scope                             *)
FailuresAreIsolated ==
    run.pc \in {"loop", "done"} /\ run.apps # <<>>
    => /\ \A k \in 1..Len(run.apps) :
            run.attempts[run.apps[k]] = (IF k < run.idx THEN 1 ELSE 0)
       /\ \A a \in Apps :
            (\A k \in 1..Len(run.apps) : run.apps[k] # a) => run.attempts[a] = 0
       /\ run.stats.success_count + run.stats.error_count = run.idx - 1
       /\ Len(run.errors) = run.stats.error_count
       /\ \A k, l \in 1..Len(run.errors) : k # l => run.errors[k].app # run.errors[l].app
       /\ run.stats.total_apps = Len(run.apps)
       /\ run.pc = "done"
          => /\ run.idx = Len(run.apps) + 1
             /\ run.stats.success_count + run.stats.error_count = run.stats.total_apps
             /\ run.out = PrintSummary(run.stats)

(* C10 witness: the first app of a run failed for a missing credential and *)
(* a later app of the same run was processed successfully                  *)
LaterAppProcessedAfterFailure ==
    /\ run.pc = "done"
    /\ Len(run.apps) >= 2
    /\ run.stats.error_count >= 1
    /\ run.stats.success_count >= 1
    /\ run.errors[1].app = run.apps[1]
    /\ run.errors[1].error = "missing_credential"
    /\ run.stats.success_count + run.stats.error_count = Len(run.apps)

-----------------------------------------------------------------------------
(* One call of a function wrapped by retry_on_failure (api_clients.py) *)

(* retry_on_failure(max_retries = N): N ranges over 0..MaxRetries *)
MaxRetries == 2

(* the statuses the wrapper lists as not to be retried *)
NoRetryStatuses == {400, 401, 403, 404}

(* What one call of the wrapped function does: it returns, it raises      *)
(* HTTPError carrying the Response of raise_for_status(), it raises a     *)
(* transport-level RequestException (no response), or another Exception   *)
CallOutcomes ==
    {[kind |-> "return", status |-> 200]}
    \cup {[kind |-> "HTTPError", status |-> s] : s \in NoRetryStatuses \cup {429, 500}}
    \cup {[kind |-> "RequestException", status |-> None],
          [kind |-> "Exception", status |-> None]}

(* bool(e.response) in `e.response and ...`: None is false, and a        *)
(* requests.Response is true exactly when it is ok, which is a status    *)
(* below 400                                                             *)
ResponseIsTrue(status) == status # None /\ status < 400

(* `attempt < max_retries`: the loop has another iteration *)
HasRetryLeftShort(attempt, max_retries) == attempt + 1 < max_retries

HasRetryLeft(attempt, max_retries) == attempt < max_retries

(* the except clauses of the wrapper: "raise" rethrows, "continue" goes *)
(* to the next iteration                                                *)
OnException(outcome, attempt, max_retries) ==
    IF outcome.kind = "HTTPError"
    THEN IF ResponseIsTrue(outcome.status) /\ outcome.status \in NoRetryStatuses
         THEN "raise"
         ELSE IF HasRetryLeft(attempt, max_retries) THEN "continue" ELSE "raise"
    ELSE IF outcome.kind = "RequestException"
    THEN IF HasRetryLeft(attempt, max_retries) THEN "continue" ELSE "raise"
    ELSE "raise"

NewWrapper(max_retries) ==
    [ pc             |-> "loop",
      max_retries    |-> max_retries,
      attempt        |-> 0,
      log            |-> <<>>,    \* "sleep" and "call", in the order they happen
      outcomes       |-> <<>>,    \* what each call of the wrapped function did
      last_exception |-> None,
      raised         |-> None,
      returned       |-> None ]

(* One iteration of `for attempt in range(max_retries + 1)`: the sleep of *)
(* a retry, the call, and the except clause that handles what it raised   *)
WrapperAttempt ==
    /\ wrapper.pc = "loop"
    /\ wrapper.attempt <= wrapper.max_retries
    /\ \E outcome \in CallOutcomes :
         LET slept == IF wrapper.attempt > 0
                      THEN Append(wrapper.log, "sleep") ELSE wrapper.log
             w == [wrapper EXCEPT !.log = Append(slept, "call"),
                                  !.outcomes = Append(@, outcome)]
         IN  IF outcome.kind = "return"
             THEN wrapper' = [w EXCEPT !.pc = "returned", !.returned = outcome]
             ELSE IF OnException(outcome, wrapper.attempt, wrapper.max_retries) = "raise"
             THEN wrapper' = [w EXCEPT !.pc = "raised", !.raised = outcome,
                                       !.last_exception =
                                           IF outcome.kind = "Exception" THEN @ ELSE outcome]
             ELSE wrapper' = [w EXCEPT !.attempt = @ + 1, !.last_exception = outcome]
    /\ UNCHANGED <<execVars, pureVars, ingestVars, fetch, store, sched, proc>>

InitRetry ==
    /\ ExecIdle
    /\ PureIdle
    /\ run = NoRun
    /\ fetch = [pc |-> "none"]
    /\ store = [pc |-> "none"]
    /\ ProcessIdle
    /\ \E max_retries \in 0..MaxRetries : wrapper = NewWrapper(max_retries)

NextRetry == WrapperAttempt

SpecRetry == InitRetry /\ [][NextRetry]_vars

-----------------------------------------------------------------------------
(* Properties of retry_on_failure, checked under SpecRetry *)

Attempts == 1..Len(wrapper.outcomes)

(* the claimed order of events for n attempts: a call, then a sleep and a *)
(* call for every further attempt                                         *)
CallsWithSleepsBetween(n) ==
    [k \in 1..(2 * n - 1) |-> IF k % 2 = 1 THEN "call" ELSE "sleep"]

(* an error the wrapper is to retry: an HTTP status outside the list, or a *)
(* transport error                                                         *)
Retryable(outcome) ==
    \/ outcome.kind = "HTTPError" /\ outcome.status \notin NoRetryStatuses
    \/ outcome.kind = "RequestException"

(* C11: a wrapped call whose first attempt fails with HTTP 400, 401, 403 *)
(* or 404 is over with that attempt: the error is rethrown after exactly *)
(* one call and no sleep                                                 *)
NoRetryStatusAttemptedOnce ==
    /\ wrapper.pc # "none"
    /\ Len(wrapper.outcomes) >= 1
    /\ wrapper.outcomes[1].kind = "HTTPError"
    /\ wrapper.outcomes[1].status \in NoRetryStatuses
    => /\ wrapper.pc = "raised"
       /\ wrapper.raised = wrapper.outcomes[1]
       /\ wrapper.log = <<"call">>

(* C12: with max_retries = N the wrapper makes at most N + 1 calls, with  *)
(* exactly one sleep before each call but the first and none after the    *)
(* last; it goes on only after a failure; when every attempt failed with  *)
(* a retryable error it has made N + 1 calls and rethrows the last error; *)
(* it returns the result of the first call that succeeded; and once it    *)
(* has returned or raised it makes no further attempt                     *)
RetryableAttemptedNPlusOne ==
    wrapper.pc # "none" /\ Len(wrapper.outcomes) >= 1
    => /\ wrapper.log = CallsWithSleepsBetween(Len(wrapper.outcomes))
       /\ Len(wrapper.outcomes) <= wrapper.max_retries + 1
       /\ \A k \in Attempts :
            k < Len(wrapper.outcomes) => wrapper.outcomes[k].kind # "return"
       /\ wrapper.pc = "loop" => Len(wrapper.outcomes) <= wrapper.max_retries
       /\ wrapper.pc = "raised" /\ (\A k \in Attempts : Retryable(wrapper.outcomes[k]))
          => /\ Len(wrapper.outcomes) = wrapper.max_retries + 1
             /\ wrapper.raised = wrapper.outcomes[Len(wrapper.outcomes)]
       /\ wrapper.pc = "returned"
          => /\ wrapper.outcomes[Len(wrapper.outcomes)].kind = "return"
             /\ wrapper.returned = wrapper.outcomes[Len(wrapper.outcomes)]
       /\ wrapper.pc \in {"returned", "raised"} => ~ENABLED WrapperAttempt

(* C12 witness: max_retries = 2, three calls failed with HTTP 500, a       *)
(* transport error and HTTP 429, and the last error was rethrown after two *)
(* sleeps                                                                  *)
ThirdAttemptRethrown ==
    /\ wrapper.pc = "raised"
    /\ wrapper.max_retries = 2
    /\ Len(wrapper.outcomes) = 3
    /\ wrapper.outcomes[1] = [kind |-> "HTTPError", status |-> 500]
    /\ wrapper.outcomes[2].kind = "RequestException"
    /\ wrapper.raised = [kind |-> "HTTPError", status |-> 429]
    /\ wrapper.log = <<"call", "sleep", "call", "sleep", "call">>

-----------------------------------------------------------------------------
(* The installs report of App Store Connect (api_clients.py):             *)
(* _parse_install_csv_data, _process_install_report_data,                 *)
(* _extract_source_type_data_from_processed and the result that           *)
(* get_analytics_data builds from them.  A report is one instance with    *)
(* one segment; a row of its CSV is a record with the columns the code    *)
(* reads; a file without an Event column has event = "" in every row, as  *)
(* record.get('Event', '') gives.  Dates are day numbers.                 *)

(* the longest CSV of the model, in rows *)
MaxRows == 2

ReportDates == {1, 2}

CsvRow(date, event, download_type, source_type, counts) ==
    [ date          |-> date,
      event         |-> event,
      download_type |-> download_type,
      source_type   |-> source_type,
      counts        |-> counts ]

(* the rows a file can hold, with and without an Event column *)
CsvRows(has_event) ==
    { CsvRow(d, k[1], k[2], st, c) :
        d \in ReportDates,
        k \in IF has_event
              THEN {<<"Install", "First-time download">>, <<"Install", "Manual update">>,
                    <<"Install", "Redownload">>, <<"Delete", "">>}
              ELSE {<<"", "First-time download">>, <<"", "Manual update">>,
                    <<"", "Redownload">>},
        st \in {"App Store search", "Unavailable"},
        c \in {1, 2} }

CsvFiles(has_event) ==
    UNION { [1..n -> CsvRows(has_event)] : n \in 0..MaxRows }

RECURSIVE SumCounts(_, _)
(* int(df[...]['Counts'].sum()) over the rows at the positions K, the rows *)
(* a filter of the frame keeps                                             *)
SumCounts(rows, K) ==
    IF K = {} THEN 0
    ELSE LET k == CHOOSE x \in K : TRUE
         IN  rows[k].counts + SumCounts(rows, K \ {k})

NamedSourceTypes ==
    {"App Store search", "Web referrer", "App referrer", "App Store browse",
     "Institutional purchase", "Unavailable"}

(* _parse_install_csv_data: the summary of one segment.  Without an Event *)
(* column there is no summary                                             *)
ParseInstallCsvData(rows, has_event) ==
    IF ~has_event THEN [has_summary |-> FALSE]
    ELSE
    LET has_install == \E k \in 1..Len(rows) : rows[k].event = "Install"
        InInstallDf(r) == has_install => r.event = "Install"
        By(st) == SumCounts(rows, {k \in 1..Len(rows) : InInstallDf(rows[k]) /\ rows[k].source_type = st})
    IN  [ has_summary     |-> TRUE,
          total_installs  |-> SumCounts(rows, {k \in 1..Len(rows) : InInstallDf(rows[k])}),
          total_deletions |-> SumCounts(rows, {k \in 1..Len(rows) : rows[k].event = "Delete"}),
          by_source_type  |->
              [ app_store_search       |-> By("App Store search"),
                web_referrer           |-> By("Web referrer"),
                app_referrer           |-> By("App referrer"),
                app_store_browse       |-> By("App Store browse"),
                institutional_purchase |-> By("Institutional purchase"),
                unavailable            |-> By("Unavailable"),
                other |-> SumCounts(rows,
                              {k \in 1..Len(rows) :
                                 /\ InInstallDf(rows[k])
                                 /\ rows[k].source_type \notin NamedSourceTypes}) ] ]

NoDailyStats ==
    [installs |-> 0, updates |-> 0, reinstalls |-> 0, deletions |-> 0, records_count |-> 0]

NoSourceTypeTotals ==
    [ app_store_search |-> 0, web_referrer |-> 0, app_referrer |-> 0,
      app_store_browse |-> 0, institutional_purchase |-> 0, other |-> 0 ]

(* the column of daily_data a record adds its Counts to, "" for none *)
DailyColumn(record, report_type) ==
    LET by_download_type ==
            IF record.download_type = "First-time download" THEN "installs"
            ELSE IF record.download_type = "Manual update" THEN "updates"
            ELSE IF record.download_type \in {"Auto-download", "Auto-update"} THEN "reinstalls"
            ELSE IF record.download_type \in {"Restore", "Redownload"} THEN "reinstalls"
            ELSE IF report_type # "detailed" /\ record.download_type # "" THEN "reinstalls"
            ELSE ""
    IN  IF record.event = "Delete" THEN "deletions"
        ELSE IF report_type = "detailed"
        THEN (IF record.event = "Install" THEN by_download_type ELSE "")
        ELSE (IF record.event = "Install" \/ record.event = "" THEN by_download_type ELSE "")

(* should_count_source_type *)
ShouldCountSourceType(record, report_type) ==
    /\ report_type = "standard"
    /\ IF record.event # ""
       THEN record.event = "Install" /\ record.download_type = "First-time download"
       ELSE record.download_type = "First-time download"

(* the key of source_type_totals a Source Type is added to *)
SourceTypeKey(source_type) ==
    IF source_type = "App Store search" THEN "app_store_search"
    ELSE IF source_type = "Web referrer" THEN "web_referrer"
    ELSE IF source_type = "App referrer" THEN "app_referrer"
    ELSE IF source_type = "App Store browse" THEN "app_store_browse"
    ELSE IF source_type = "Institutional purchase" THEN "institutional_purchase"
    ELSE "other"

(* the body of `for record in raw_data` for one record *)
AddRecord(processed, record, target_date, report_type) ==
    LET daily0 == IF record.date \in DOMAIN processed.daily_data
                  THEN processed.daily_data
                  ELSE [d \in DOMAIN processed.daily_data \cup {record.date} |->
                           IF d = record.date THEN NoDailyStats
                           ELSE processed.daily_data[d]]
        column == DailyColumn(record, report_type)
        daily1 == IF column = "" THEN daily0
                  ELSE [daily0 EXCEPT ![record.date][column] = @ + record.counts]
        daily2 == [daily1 EXCEPT ![record.date].records_count = @ + 1]
        counted == /\ ShouldCountSourceType(record, report_type)
                   /\ (target_date # None => record.date = target_date)
                   /\ record.source_type # ""
    IN  [processed EXCEPT
            !.daily_data = daily2,
            !.source_type_totals =
                IF counted
                THEN [@ EXCEPT ![SourceTypeKey(record.source_type)] = @ + record.counts]
                ELSE @]

RECURSIVE AddRecords(_, _, _, _, _)
AddRecords(processed, rows, k, target_date, report_type) ==
    IF k > Len(rows) THEN processed
    ELSE AddRecords(AddRecord(processed, rows[k], target_date, report_type),
                    rows, k + 1, target_date, report_type)

RECURSIVE SumColumn(_, _, _)
(* the sum of one column of daily_data over the dates in D *)
SumColumn(daily_data, D, column) ==
    IF D = {} THEN 0
    ELSE LET d == CHOOSE x \in D : TRUE
         IN  daily_data[d][column] + SumColumn(daily_data, D \ {d}, column)

(* _process_install_report_data for a report of one instance with one *)
(* segment holding the rows                                           *)
ProcessInstallReportData(rows, has_event, target_date, report_type) ==
    LET summary == ParseInstallCsvData(rows, has_event)
        empty == [ total_installs     |-> 0,
                   total_updates      |-> 0,
                   total_reinstalls   |-> 0,
                   total_deletions    |-> 0,
                   daily_data         |-> [d \in {} |-> NoDailyStats],
                   summary            |-> summary,
                   source_type_totals |-> NoSourceTypeTotals ]
        added == AddRecords(empty, rows, 1, target_date, report_type)
        (* total_deletions += summary.get('total_deletions', 0) *)
        p == [added EXCEPT !.total_deletions =
                 @ + (IF summary.has_summary THEN summary.total_deletions ELSE 0)]
        dates == DOMAIN p.daily_data
    IN  IF target_date # None /\ dates # {}
        THEN IF target_date \in dates
             THEN [p EXCEPT !.total_installs   = p.daily_data[target_date].installs,
                            !.total_updates    = p.daily_data[target_date].updates,
                            !.total_reinstalls = p.daily_data[target_date].reinstalls,
                            !.total_deletions  = p.daily_data[target_date].deletions]
             ELSE [p EXCEPT !.total_installs = 0, !.total_updates = 0,
                            !.total_reinstalls = 0, !.total_deletions = 0]
        ELSE [p EXCEPT !.total_installs   = @ + SumColumn(p.daily_data, dates, "installs"),
                       !.total_updates    = @ + SumColumn(p.daily_data, dates, "updates"),
                       !.total_reinstalls = @ + SumColumn(p.daily_data, dates, "reinstalls"),
                       !.total_deletions  = @ + SumColumn(p.daily_data, dates, "deletions")]

SumOfChannels(c) ==
    c.app_store_search + c.web_referrer + c.app_referrer + c.app_store_browse
    + c.institutional_purchase + c.other

(* _extract_source_type_data_from_processed: the aggregated totals when   *)
(* their sum is positive, otherwise the by_source_type summaries of the   *)
(* segments                                                               *)
ExtractSourceTypeDataAggregated(processed) ==
    [ downloads_app_store_search |-> processed.source_type_totals.app_store_search,
      downloads_web_referrer     |-> processed.source_type_totals.web_referrer,
      downloads_app_referrer     |-> processed.source_type_totals.app_referrer,
      downloads_app_store_browse |-> processed.source_type_totals.app_store_browse,
      downloads_institutional    |-> processed.source_type_totals.institutional_purchase,
      downloads_other            |-> processed.source_type_totals.other ]

ExtractSourceTypeData(processed) ==
    IF SumOfChannels(processed.source_type_totals) > 0
    THEN ExtractSourceTypeDataAggregated(processed)
    ELSE IF processed.summary.has_summary
    THEN LET by == processed.summary.by_source_type
         IN  [ downloads_app_store_search |-> by.app_store_search,
               downloads_web_referrer     |-> by.web_referrer,
               downloads_app_referrer     |-> by.app_referrer,
               downloads_app_store_browse |-> by.app_store_browse,
               downloads_institutional    |-> by.institutional_purchase,
               downloads_other            |-> by.unavailable + by.other ]
    ELSE [ downloads_app_store_search |-> 0, downloads_web_referrer |-> 0,
           downloads_app_referrer |-> 0, downloads_app_store_browse |-> 0,
           downloads_institutional |-> 0, downloads_other |-> 0 ]

(* what get_analytics_data copies from the processed installs report *)
InstallResult(processed) ==
    [ downloads  |-> processed.total_installs,
      updates    |-> processed.total_updates,
      reinstalls |-> processed.total_reinstalls,
      deletions  |-> processed.total_deletions,
      channels   |-> ExtractSourceTypeData(processed) ]

ApplyProcessInstallReport ==
    /\ pureFn = "process_install_report_data"
    /\ ~pureDone
    /\ LET processed == ProcessInstallReportData(pureIn.rows, pureIn.has_event,
                                                 pureIn.target_date, pureIn.report_type)
       IN  pureOut' = [processed |-> processed, result |-> InstallResult(processed)]
    /\ pureDone' = TRUE
    /\ UNCHANGED <<pureFn, pureIn, execVars, ingestVars, clientVars>>

InitInstall ==
    /\ ExecIdle
    /\ run = NoRun
    /\ ClientIdle
    /\ pureFn = "process_install_report_data"
    /\ \E he \in BOOLEAN, t \in {None} \cup ReportDates \cup {3} :
         \E rows \in CsvFiles(he) :
            pureIn = [rows |-> rows, has_event |-> he, target_date |-> t,
                      report_type |-> "standard"]
    /\ pureOut = <<>>
    /\ pureDone = FALSE

NextInstall == ApplyProcessInstallReport

SpecInstall == InitInstall /\ [][NextInstall]_vars

-----------------------------------------------------------------------------
(* Properties of the installs report, checked under SpecInstall *)

InstallApplied == pureFn = "process_install_report_data" /\ pureDone

(* a row that is a first-time download *)
IsFirstTimeDownload(r) ==
    r.download_type = "First-time download" /\ r.event \in {"Install", ""}

(* C14: with a target date the returned installs, updates, reinstalls and  *)
(* uninstalls are the row of that date in the daily table, or all zero     *)
(* when the table has no such row; without a target date each of them is   *)
(* the sum of its column over the dates of the daily table                 *)
InstallTotalsFromDailyTable ==
    InstallApplied
    => LET daily == pureOut.processed.daily_data
           r == pureOut.result
           t == pureIn.target_date
           Expected(column) ==
               IF t = None THEN SumColumn(daily, DOMAIN daily, column)
               ELSE IF t \in DOMAIN daily THEN daily[t][column]
               ELSE 0
       IN  /\ r.downloads = Expected("installs")
           /\ r.updates = Expected("updates")
           /\ r.reinstalls = Expected("reinstalls")
           /\ r.deletions = Expected("deletions")

(* C15: with a target date each of the six channel counts is the sum of   *)
(* the Counts of the first-time-download rows of that date with a source  *)
(* type of that channel; no other row contributes                         *)
ChannelsOnlyFromTargetDate ==
    InstallApplied /\ pureIn.target_date # None
    => LET c == pureOut.result.channels
           Expected(key) ==
               SumCounts(pureIn.rows,
                         {k \in 1..Len(pureIn.rows) :
                            /\ pureIn.rows[k].date = pureIn.target_date
                            /\ IsFirstTimeDownload(pureIn.rows[k])
                            /\ SourceTypeKey(pureIn.rows[k].source_type) = key})
       IN  /\ c.downloads_app_store_search = Expected("app_store_search")
           /\ c.downloads_web_referrer = Expected("web_referrer")
           /\ c.downloads_app_referrer = Expected("app_referrer")
           /\ c.downloads_app_store_browse = Expected("app_store_browse")
           /\ c.downloads_institutional = Expected("institutional_purchase")
           /\ c.downloads_other = Expected("other")

(* C16: for a standard installs report whose first-time-download rows all *)
(* carry a known source type, the six channel counts returned for a       *)
(* target date add up to the first-time downloads returned for it         *)
ChannelsSumToDownloads ==
    /\ InstallApplied
    /\ pureIn.target_date # None
    /\ pureIn.report_type = "standard"
    /\ \A k \in 1..Len(pureIn.rows) :
         IsFirstTimeDownload(pureIn.rows[k])
         => pureIn.rows[k].source_type \in NamedSourceTypes
    => LET c == pureOut.result.channels
       IN  c.downloads_app_store_search + c.downloads_web_referrer
           + c.downloads_app_referrer + c.downloads_app_store_browse
           + c.downloads_institutional + c.downloads_other
           = pureOut.result.downloads

-----------------------------------------------------------------------------
(* One call of AppStoreConnectClient.get_analytics_data (api_clients.py). *)
(* Each action is one vendor request, made through the retry wrapper, and *)
(* the code that runs until the next request.                             *)

(* What a vendor request ends with once the retry wrapper is done: the    *)
(* JSON of a 200 response, with or without the data asked for, or the     *)
(* exception the wrapper rethrows                                         *)
VendorResponses ==
    {[kind |-> "return", status |-> 200, empty |-> e] : e \in BOOLEAN}
    \cup {[kind |-> o.kind, status |-> o.status, empty |-> TRUE] :
            o \in {c \in CallOutcomes : c.kind = "RequestException"
                                        \/ (c.kind = "HTTPError" /\ c.status \in {403, 500})}}

(* the reports asked of the vendor, in the order the code handles them *)
ReportNames == <<"install_report", "install_detailed_report", "session_report">>

(* the CSV rows the vendor holds for the standard and the detailed report *)
InstallFixture ==
    << CsvRow(1, "Install", "First-time download", "App Store search", 2),
       CsvRow(1, "Install", "Manual update", "Unavailable", 1),
       CsvRow(2, "Install", "First-time download", "Unavailable", 1) >>

DetailedFixture ==
    << CsvRow(1, "Delete", "", "", 2), CsvRow(2, "Delete", "", "", 1) >>

(* the totals of the processed session report the vendor holds *)
SessionFixture == [total_sessions |-> 7, total_unique_devices |-> 4]

NoChannels ==
    [ downloads_app_store_search |-> 0, downloads_web_referrer |-> 0,
      downloads_app_referrer |-> 0, downloads_app_store_browse |-> 0,
      downloads_institutional |-> 0, downloads_other |-> 0 ]

(* the payload get_analytics_data returns from its except clauses: the   *)
(* HTTPError clause captures the status, the Exception clause does not   *)
ErrorPayload(exception) ==
    [ downloads |-> 0, sessions |-> 0, deletions |-> 0, unique_devices |-> 0,
      channels |-> NoChannels,
      error |-> exception.message,
      status_code |-> IF exception.kind = "HTTPError" THEN exception.status ELSE None ]

(* the payload built from report_data: a report that is missing leaves *)
(* its fields at their defaults                                        *)
ResultPayload(report_data) ==
    LET has_install == "install_report" \in DOMAIN report_data
        has_session == "session_report" \in DOMAIN report_data
        install == IF has_install THEN InstallResult(report_data["install_report"])
                   ELSE [downloads |-> 0, deletions |-> 0, channels |-> NoChannels]
    IN  [ downloads |-> install.downloads,
          sessions |-> IF has_session THEN report_data["session_report"].total_sessions ELSE 0,
          deletions |-> install.deletions,
          unique_devices |-> IF has_session
                             THEN report_data["session_report"].total_unique_devices ELSE 0,
          channels |-> install.channels,
          error |-> "",
          status_code |-> None ]

(* processed_data of one report, from the segments the vendor returned; a *)
(* failed segment listing leaves the instance without segments            *)
ProcessReport(name, response, target_date) ==
    LET got == response.kind = "return" /\ ~response.empty
    IN  IF name = "install_report"
        THEN ProcessInstallReportData(IF got THEN InstallFixture ELSE <<>>, got,
                                      target_date, "standard")
        ELSE IF name = "install_detailed_report"
        THEN ProcessInstallReportData(IF got THEN DetailedFixture ELSE <<>>, got,
                                      target_date, "detailed")
        ELSE IF got THEN SessionFixture
        ELSE [total_sessions |-> 0, total_unique_devices |-> 0]

(* data[name] = ..., and the merge of the deletions of the detailed report *)
(* into the standard one                                                   *)
StoreReport(report_data, name, processed) ==
    LET with == [n \in DOMAIN report_data \cup {name} |->
                    IF n = name THEN processed ELSE report_data[n]]
    IN  IF name = "install_detailed_report" /\ "install_report" \in DOMAIN report_data
        THEN [with EXCEPT !["install_report"].total_deletions = processed.total_deletions]
        ELSE with

NewFetch(target_date) ==
    [ pc          |-> "app_info",
      target_date |-> target_date,
      failures    |-> <<>>,      \* the requests that raised, with what they raised
      report      |-> 0,         \* position in ReportNames
      report_data |-> [n \in {} |-> 0],
      payload     |-> None ]

(* `response` is recorded when the request raised *)
Requested(f, call, response) ==
    IF response.kind = "return" THEN f
    ELSE [f EXCEPT !.failures = Append(@, [call |-> call, response |-> response])]

Returned(f, payload) == [f EXCEPT !.pc = "returned", !.payload = payload]

(* the next report to list instances of, or the result when none is left *)
NextReport(f) ==
    IF f.report < Len(ReportNames)
    THEN [f EXCEPT !.pc = "instances", !.report = @ + 1]
    ELSE Returned(f, ResultPayload(f.report_data))

Got(response) == response.kind = "return" /\ ~response.empty

RaisedException(message) == [kind |-> "Exception", status |-> None, message |-> message]

(* get_app_info: any exception of the request is caught and gives None, *)
(* and get_analytics_data raises Exception when it has no app           *)
FetchAppInfo ==
    /\ fetch.pc = "app_info"
    /\ \E response \in VendorResponses :
         LET f == Requested(fetch, "apps", response)
         IN  fetch' = IF Got(response)
                      THEN [f EXCEPT !.pc = "existing_request"]
                      ELSE Returned(f, ErrorPayload(RaisedException("app not found")))
    /\ UNCHANGED <<execVars, pureVars, ingestVars, wrapper, store, sched, proc>>

(* _get_existing_analytics_request: None when nothing is found and when *)
(* the request raised; a new request is created then                    *)
FetchExistingRequest ==
    /\ fetch.pc = "existing_request"
    /\ \E response \in VendorResponses :
         LET f == Requested(fetch, "analyticsReportRequests", response)
         IN  fetch' = [f EXCEPT !.pc = IF Got(response) THEN "reports"
                                       ELSE "create_request"]
    /\ UNCHANGED <<execVars, pureVars, ingestVars, wrapper, store, sched, proc>>

(* _create_analytics_report_request: None when the POST raised or had no *)
(* data, and get_analytics_data raises Exception then                    *)
FetchCreateRequest ==
    /\ fetch.pc = "create_request"
    /\ \E response \in VendorResponses :
         LET f == Requested(fetch, "create analyticsReportRequests", response)
         IN  fetch' = IF Got(response)
                      THEN [f EXCEPT !.pc = "reports"]
                      ELSE Returned(f, ErrorPayload(RaisedException("create request failed")))
    /\ UNCHANGED <<execVars, pureVars, ingestVars, wrapper, store, sched, proc>>

(* _get_analytics_report_info, the report listing: {} when the request *)
(* raised or had no data                                               *)
FetchReports ==
    /\ fetch.pc = "reports"
    /\ \E response \in VendorResponses :
         LET f == Requested(fetch, "reports", response)
         IN  fetch' = IF Got(response)
                      THEN NextReport(f)
                      ELSE Returned(f, ResultPayload(f.report_data))
    /\ UNCHANGED <<execVars, pureVars, ingestVars, wrapper, store, sched, proc>>

(* _get_report_instances of the current report: None when the request *)
(* raised; a report without instances is left out                     *)
FetchInstances ==
    /\ fetch.pc = "instances"
    /\ \E response \in VendorResponses :
         LET f == Requested(fetch, "instances", response)
         IN  fetch' = IF Got(response)
                      THEN [f EXCEPT !.pc = "segments"]
                      ELSE NextReport(f)
    /\ UNCHANGED <<execVars, pureVars, ingestVars, wrapper, store, sched, proc>>

(* _get_instance_segments_data of the instance of the current report and *)
(* the processing of the report; after the last report the result is     *)
(* built and returned                                                    *)
FetchSegments ==
    /\ fetch.pc = "segments"
    /\ \E response \in VendorResponses :
         LET f == Requested(fetch, "segments", response)
             name == ReportNames[fetch.report]
             processed == ProcessReport(name, response, fetch.target_date)
         IN  fetch' = NextReport([f EXCEPT !.report_data = StoreReport(@, name, processed)])
    /\ UNCHANGED <<execVars, pureVars, ingestVars, wrapper, store, sched, proc>>

InitFetch ==
    /\ ExecIdle
    /\ PureIdle
    /\ run = NoRun
    /\ wrapper = [pc |-> "none"]
    /\ store = [pc |-> "none"]
    /\ ProcessIdle
    /\ \E target_date \in {None} \cup ReportDates : fetch = NewFetch(target_date)

NextFetch ==
    \/ FetchAppInfo
    \/ FetchExistingRequest
    \/ FetchCreateRequest
    \/ FetchReports
    \/ FetchInstances
    \/ FetchSegments

SpecFetch == InitFetch /\ [][NextFetch]_vars

-----------------------------------------------------------------------------
(* Properties of get_analytics_data, checked under SpecFetch *)

(* the requests of the call that failed with an HTTP 4xx status *)
ClientErrors ==
    { k \in 1..Len(fetch.failures) :
        /\ fetch.failures[k].response.kind = "HTTPError"
        /\ fetch.failures[k].response.status \in 400..499 }

(* C13: a get_analytics_data call in which a vendor request failed with an *)
(* HTTP 4xx status returns a payload with an error and with the status     *)
(* code of that response                                                   *)
ClientErrorAbortsFetch ==
    fetch.pc = "returned" /\ ClientErrors # {}
    => /\ fetch.payload.error # ""
       /\ \E k \in ClientErrors :
            fetch.payload.status_code = fetch.failures[k].response.status

-----------------------------------------------------------------------------
(* GooglePlayConsoleClient.get_statistics_data (api_clients.py), from the *)
(* parsed rows of the overview CSV on.  Dates are day numbers of the      *)
(* month of the file: the code compares them as 'YYYY-MM-DD' strings,     *)
(* which orders them as the days.  A cell that is empty is None.          *)

(* the longest overview file of the model, in rows *)
MaxOverviewRows == 3

OverviewDates == {1, 2, 3}

OverviewRow(date, installs, uninstalls) ==
    [date |-> date, installs |-> installs, uninstalls |-> uninstalls]

OverviewRows ==
    { OverviewRow(d, i, u) : d \in OverviewDates \cup {None}, i \in {None, 1, 2}, u \in {0, 1} }

OverviewFiles == UNION { [1..n -> OverviewRows] : n \in 0..MaxOverviewRows }

(* _parse_int on a cell that holds a number or nothing *)
ParseInt(val) == IF val = None THEN 0 ELSE val

RECURSIVE ScanRows(_, _, _, _)
(* `for row in rows`: every row with a date is put into daily_map, and the *)
(* loop is left at the first row of the target date                        *)
ScanRows(rows, k, daily_map, date_key) ==
    IF k > Len(rows) THEN [daily_map |-> daily_map, matched_row |-> None]
    ELSE LET row == rows[k]
             with == IF row.date = None THEN daily_map
                     ELSE [d \in DOMAIN daily_map \cup {row.date} |->
                              IF d = row.date
                              THEN [downloads |-> ParseInt(row.installs),
                                    deletions |-> ParseInt(row.uninstalls)]
                              ELSE daily_map[d]]
         IN  IF row.date # None /\ row.date = date_key
             THEN [daily_map |-> with, matched_row |-> k]
             ELSE ScanRows(rows, k + 1, with, date_key)

Greatest(D) == CHOOSE d \in D : \A e \in D : e <= d

Smallest(D) == CHOOSE d \in D : \A e \in D : d <= e

(* available_dates[-1] of the sorted dates that are <= the target date *)
ClosestAvailableFirst(daily_map, date_key) ==
    Smallest({d \in DOMAIN daily_map : d <= date_key})

ClosestAvailable(daily_map, date_key) ==
    Greatest({d \in DOMAIN daily_map : d <= date_key})

GetStatisticsData(rows, target_date) ==
    LET scan == ScanRows(rows, 1, [d \in {} |-> 0], target_date)
        daily_map == scan.daily_map
        found == IF scan.matched_row # None
                 THEN [downloads |-> ParseInt(rows[scan.matched_row].installs),
                       deletions |-> ParseInt(rows[scan.matched_row].uninstalls),
                       effective_date |-> target_date]
                 ELSE IF {d \in DOMAIN daily_map : d <= target_date} # {}
                 THEN LET effective_date == ClosestAvailable(daily_map, target_date)
                      IN  [downloads |-> daily_map[effective_date].downloads,
                           deletions |-> daily_map[effective_date].deletions,
                           effective_date |-> effective_date]
                 ELSE [downloads |-> 0, deletions |-> 0, effective_date |-> None]
    IN  [ downloads |-> found.downloads,
          sessions |-> 0,
          deletions |-> found.deletions,
          effective_date |-> found.effective_date,
          available_dates |-> DOMAIN daily_map,
          daily_map |-> daily_map,
          max_available_date |-> IF DOMAIN daily_map # {} THEN Greatest(DOMAIN daily_map)
                                 ELSE None,
          error |-> "" ]

ApplyGetStatisticsData ==
    /\ pureFn = "get_statistics_data"
    /\ ~pureDone
    /\ pureOut' = GetStatisticsData(pureIn.rows, pureIn.target_date)
    /\ pureDone' = TRUE
    /\ UNCHANGED <<pureFn, pureIn, execVars, ingestVars, clientVars>>

InitPlay ==
    /\ ExecIdle
    /\ run = NoRun
    /\ ClientIdle
    /\ pureFn = "get_statistics_data"
    /\ \E rows \in OverviewFiles, target_date \in OverviewDates \cup {4} :
         pureIn = [rows |-> rows, target_date |-> target_date]
    /\ pureOut = <<>>
    /\ pureDone = FALSE

NextPlay == ApplyGetStatisticsData

SpecPlay == InitPlay /\ [][NextPlay]_vars

-----------------------------------------------------------------------------
(* Properties of get_statistics_data, checked under SpecPlay *)

StatisticsApplied == pureFn = "get_statistics_data" /\ pureDone

(* the rows of the file with the date d *)
RowsOfDate(d) == { k \in 1..Len(pureIn.rows) : pureIn.rows[k].date = d }

(* the dates of the rows of the file that have one *)
DatesOfFile ==
    { pureIn.rows[k].date : k \in {j \in 1..Len(pureIn.rows) : pureIn.rows[j].date # None} }

(* the result carries the counts of a row of the date d *)
CountsOfDate(d) ==
    \E k \in RowsOfDate(d) :
       /\ pureOut.downloads = ParseInt(pureIn.rows[k].installs)
       /\ pureOut.deletions = ParseInt(pureIn.rows[k].uninstalls)

(* C17: get_statistics_data returns the counts of the row of the target    *)
(* date with effective_date = target date when the file has such a row;    *)
(* otherwise the counts of the greatest date of the file that is <= the    *)
(* target date, reported as effective_date; and zero counts without an     *)
(* effective date when no date of the file is <= the target date           *)
StatisticsOfTargetOrClosestEarlier ==
    StatisticsApplied
    => LET t == pureIn.target_date
           earlier == {d \in DatesOfFile : d <= t}
       IN  IF t \in DatesOfFile
           THEN pureOut.effective_date = t /\ CountsOfDate(t)
           ELSE IF earlier # {}
           THEN /\ pureOut.effective_date \in earlier
                /\ \A d \in earlier : d <= pureOut.effective_date
                /\ CountsOfDate(pureOut.effective_date)
           ELSE /\ pureOut.effective_date = None
                /\ pureOut.downloads = 0
                /\ pureOut.deletions = 0

(* C17 witness: the file has the rows of days 1, 2 and 3, day 4 is asked *)
(* for, and the counts of day 3 are returned with effective_date 3       *)
FellBackToDayThree ==
    /\ StatisticsApplied
    /\ pureIn.target_date = 4
    /\ Len(pureIn.rows) = 3
    /\ \A k \in 1..3 : pureIn.rows[k].date = k
    /\ pureIn.rows[2].installs = 1
    /\ pureIn.rows[3].installs = 2
    /\ pureOut.effective_date = 3
    /\ pureOut.downloads = 2

(* C18: the date map returned by get_statistics_data has an entry for *)
(* every row of the file that has a date, and available_dates and     *)
(* max_available_date are those of the whole file                     *)
DateMapIsComplete ==
    StatisticsApplied
    => /\ DOMAIN pureOut.daily_map = DatesOfFile
       /\ pureOut.available_dates = DatesOfFile
       /\ pureOut.max_available_date =
            (IF DatesOfFile = {} THEN None ELSE Greatest(DatesOfFile))

-----------------------------------------------------------------------------
(* Steps 3 and 4 of Command.process_single_app (run_daily_task.py): the   *)
(* fetch of the payload and the writes to the DataRecord table, run       *)
(* several times in sequence for one app and target date against a vendor *)
(* that answers the same every time.                                      *)

(* how many times in sequence the pipeline is run *)
MaxPipelineRuns == 2

DataRecord(app, date, downloads, sessions, deletions, unique_devices, channels, raw_data) ==
    [ app            |-> app,
      date           |-> date,
      downloads      |-> downloads,
      sessions       |-> sessions,
      deletions      |-> deletions,
      unique_devices |-> unique_devices,
      channels       |-> channels,
      raw_data       |-> raw_data ]

(* DataRecord.objects.filter(app=app, date=date) *)
RecordsOf(records, app, date) ==
    { k \in 1..Len(records) : records[k].app = app /\ records[k].date = date }

(* DataRecord.objects.create(...) in place of update_or_create *)
CreateAlways(records, record) == Append(records, record)

(* DataRecord.objects.update_or_create(app=, date=, defaults=): the row of *)
(* the key gets the defaults, and a row is created only when the key has  *)
(* none                                                                   *)
UpdateOrCreate(records, record) ==
    IF RecordsOf(records, record.app, record.date) = {}
    THEN Append(records, record)
    ELSE [k \in 1..Len(records) |->
             IF k \in RecordsOf(records, record.app, record.date) THEN record
             ELSE records[k]]

(* what the vendor of a platform holds; the clients are deterministic in it *)
OkResponse == [kind |-> "return", status |-> 200, empty |-> FALSE]

(* get_analytics_data when every request succeeds *)
AnalyticsData(target_date) ==
    LET install == StoreReport([n \in {} |-> 0], "install_report",
                               ProcessReport("install_report", OkResponse, target_date))
        detailed == StoreReport(install, "install_detailed_report",
                                ProcessReport("install_detailed_report", OkResponse, target_date))
        session == StoreReport(detailed, "session_report",
                               ProcessReport("session_report", OkResponse, target_date))
    IN  ResultPayload(session)

(* raw_data = client.get_analytics_data(...) / client.get_statistics_data(...) *)
FetchRawData(vendor, target_date) ==
    IF ~vendor.up THEN ErrorPayload(RaisedException("vendor down"))
    ELSE IF vendor.platform = "ios" THEN AnalyticsData(target_date)
    ELSE GetStatisticsData(vendor.rows, target_date)

(* the date the Android record is written under: the effective date of *)
(* the payload, the target date when it has none                       *)
AndroidRecordDate(raw_data, target_date) ==
    IF raw_data.effective_date # None THEN raw_data.effective_date ELSE target_date

RECURSIVE Backfill(_, _, _, _)
(* the gap filling of Android: in date order, a record is created for *)
(* every date of daily_map that has none yet                          *)
Backfill(records, app, daily_map, dates) ==
    IF dates = {} THEN records
    ELSE LET d == Smallest(dates)
             filled == IF RecordsOf(records, app, d) # {} THEN records
                       ELSE UpdateOrCreate(records,
                                DataRecord(app, d, daily_map[d].downloads, 0,
                                           daily_map[d].deletions, None, NoChannels,
                                           "backfill from overview"))
         IN  Backfill(filled, app, daily_map, dates \ {d})

(* step 4 for Android without the gap filling *)
SaveAndroidWithoutBackfill(records, app, target_date, raw_data) ==
    UpdateOrCreate(records,
        DataRecord(app, AndroidRecordDate(raw_data, target_date), raw_data.downloads,
                   raw_data.sessions, raw_data.deletions, None, NoChannels, "payload"))

(* step 4 for Android *)
SaveAndroid(records, app, target_date, raw_data) ==
    LET dates == { d \in DOMAIN raw_data.daily_map :
                     raw_data.max_available_date = None \/ d <= raw_data.max_available_date }
        filled == Backfill(records, app, raw_data.daily_map, dates)
    IN  UpdateOrCreate(filled,
            DataRecord(app, AndroidRecordDate(raw_data, target_date), raw_data.downloads,
                       raw_data.sessions, raw_data.deletions, None, NoChannels, "payload"))

(* step 4 for iOS *)
SaveIos(records, app, target_date, raw_data) ==
    UpdateOrCreate(records,
        DataRecord(app, target_date, raw_data.downloads, raw_data.sessions,
                   raw_data.deletions, raw_data.unique_devices, raw_data.channels,
                   "payload"))

NewStore(vendor, target_date, records) ==
    [ pc          |-> "idle",
      app         |-> 1,
      vendor      |-> vendor,
      target_date |-> target_date,
      records     |-> records,     \* the DataRecord table
      runs        |-> 0,           \* runs of the pipeline so far
      raised      |-> FALSE,       \* the last run raised
      tables      |-> <<>> ]       \* the table as each run left it

(* one run of process_single_app up to the end of step 4 *)
AfterRun(s, raised, records) ==
    [s EXCEPT !.runs = @ + 1, !.raised = raised, !.records = records,
              !.tables = Append(@, records)]

RunOnIos ==
    /\ store.pc = "idle"
    /\ store.vendor.platform = "ios"
    /\ store.runs < MaxPipelineRuns
    /\ \E raw_data \in {FetchRawData(store.vendor, store.target_date)} :
           store' = IF raw_data.error # ""
                    THEN AfterRun(store, TRUE, store.records)
                    ELSE AfterRun(store, FALSE,
                                  SaveIos(store.records, store.app, store.target_date, raw_data))
    /\ UNCHANGED <<execVars, pureVars, ingestVars, wrapper, fetch, sched, proc>>

RunOnAndroid ==
    /\ store.pc = "idle"
    /\ store.vendor.platform = "android"
    /\ store.runs < MaxPipelineRuns
    /\ \E raw_data \in {FetchRawData(store.vendor, store.target_date)} :
           store' = IF raw_data.error # ""
                    THEN AfterRun(store, TRUE, store.records)
                    ELSE AfterRun(store, FALSE,
                                  SaveAndroid(store.records, store.app, store.target_date,
                                              raw_data))
    /\ UNCHANGED <<execVars, pureVars, ingestVars, wrapper, fetch, sched, proc>>

(* the overview files of the store runs: every row has a date and counts *)
StoreFiles ==
    UNION { [1..n -> {OverviewRow(d, d + 1, d) : d \in OverviewDates}] :
              n \in 0..MaxOverviewRows }

Vendors ==
    {[platform |-> "ios", up |-> up, rows |-> <<>>] : up \in BOOLEAN}
    \cup {[platform |-> "android", up |-> up, rows |-> rows] :
            up \in BOOLEAN, rows \in StoreFiles}

(* the table before the first run: empty, or with a record of an earlier *)
(* run for this app or for another one                                   *)
InitialTables ==
    {<<>>}
    \cup {<<DataRecord(app, d, 9, 9, 9, None, NoChannels, "payload")>> :
            app \in {1, 2}, d \in {1, 2}}

InitStore ==
    /\ ExecIdle
    /\ PureIdle
    /\ run = NoRun
    /\ wrapper = [pc |-> "none"]
    /\ fetch = [pc |-> "none"]
    /\ ProcessIdle
    /\ \E vendor \in Vendors, records \in InitialTables :
         \E target_date \in IF vendor.platform = "ios" THEN ReportDates
                            ELSE OverviewDates \cup {4} :
            store = NewStore(vendor, target_date, records)

NextStore ==
    \/ RunOnIos
    \/ RunOnAndroid

SpecStore == InitStore /\ [][NextStore]_vars

-----------------------------------------------------------------------------
(* Properties of the DataRecord writes, checked under SpecStore *)

(* the date a run that got the payload raw_data writes its record under: *)
(* the target date, and on Android the effective date of the payload     *)
(* when it has one                                                       *)
RecordDateOfRun(raw_data) ==
    IF store.vendor.platform = "android" /\ raw_data.effective_date # None
    THEN raw_data.effective_date
    ELSE store.target_date

(* C19: when the pipeline is run again for the same app and date against *)
(* the same vendor payload, the table after the run equals the table     *)
(* after the run before it; a run that got its payload leaves exactly    *)
(* one record for the app and the date it writes, with the counts of the *)
(* payload; and in no state do two records share (app, date)             *)
RerunLeavesSameRecord ==
    store.pc = "idle"
    => /\ \A k, l \in 1..Len(store.records) :
            /\ store.records[k].app = store.records[l].app
            /\ store.records[k].date = store.records[l].date
            => k = l
       /\ \A n \in 2..Len(store.tables) : store.tables[n] = store.tables[n - 1]
       /\ store.runs >= 1 /\ ~store.raised
          => \A raw_data \in {FetchRawData(store.vendor, store.target_date)} :
               \A written \in {RecordsOf(store.records, store.app, RecordDateOfRun(raw_data))} :
                 /\ Cardinality(written) = 1
                 /\ \A k \in written :
                      /\ store.records[k].downloads = raw_data.downloads
                      /\ store.records[k].deletions = raw_data.deletions
                      /\ store.records[k].raw_data = "payload"
       /\ store.runs >= 1 /\ store.raised => store.records = store.tables[1]

(* C19 witness: two runs on iOS for day 1 over a table that already held *)
(* a record of the app for day 1: the table has that one record, with    *)
(* the downloads of the payload, after the first run and after the       *)
(* second                                                                *)
SecondRunKeptOneRecord ==
    /\ store.pc = "idle"
    /\ store.runs = 2
    /\ ~store.raised
    /\ store.vendor.platform = "ios"
    /\ store.target_date = 1
    /\ Len(store.tables[1]) = 1
    /\ store.tables[2] = store.tables[1]
    /\ store.records[1].app = 1
    /\ store.records[1].date = 1
    /\ store.records[1].downloads = 2
    /\ store.records[1].channels.downloads_app_store_search = 2

-----------------------------------------------------------------------------
(* DataAnalyzer._calculate_percentage_change, monitoring/utils/analytics.py *)
(* The counts compared are the integer fields of two DataRecords. A         *)
(* percentage is held in hundredths (312 is 3.12), a quotient as the pair   *)
(* of its numerator and denominator until round() is applied.               *)
(* Specification: SpecAnalytics                                             *)

MaxValue == 33

(* a / b on numbers: ZeroDivisionError when b is 0 *)
TrueDivide(a, b) ==
    IF b = 0 THEN [kind |-> "raise", exception |-> "ZeroDivisionError"]
    ELSE [kind |-> "return", num |-> a, den |-> b]

(* round(num / den, 2) in hundredths, den > 0: the nearest hundredth, and *)
(* the even one of the two when the value is halfway between them         *)
Round2(num, den) ==
    LET magnitude == IF num < 0 THEN 0 - num ELSE num
        q == (magnitude * 100) \div den
        rem == (magnitude * 100) % den
        rounded == IF 2 * rem > den \/ (2 * rem = den /\ q % 2 = 1) THEN q + 1 ELSE q
    IN  IF num < 0 THEN 0 - rounded ELSE rounded

(* the function without its test of old_value == 0 *)
CalculatePercentageChangeUnguarded(old_value, new_value) ==
    LET change == TrueDivide(new_value - old_value, old_value)
    IN  IF change.kind = "raise" THEN change
        ELSE [kind |-> "return", hundredths |-> Round2(change.num * 100, change.den)]

CalculatePercentageChange(old_value, new_value) ==
    IF old_value = 0
    THEN [kind |-> "return", hundredths |-> IF new_value > 0 THEN 10000 ELSE 0]
    ELSE LET change == TrueDivide(new_value - old_value, old_value)
         IN  IF change.kind = "raise" THEN change
             ELSE [kind |-> "return",
                   hundredths |-> Round2(change.num * 100, change.den)]

ApplyCalculatePercentageChange ==
    /\ pureFn = "calculate_percentage_change"
    /\ ~pureDone
    /\ pureOut' = CalculatePercentageChange(pureIn.old_value, pureIn.new_value)
    /\ pureDone' = TRUE
    /\ UNCHANGED <<pureFn, pureIn, execVars, ingestVars, clientVars>>

InitAnalytics ==
    /\ ExecIdle
    /\ run = NoRun
    /\ ClientIdle
    /\ pureFn = "calculate_percentage_change"
    /\ \E old_value \in 0..MaxValue, new_value \in 0..MaxValue :
         pureIn = [old_value |-> old_value, new_value |-> new_value]
    /\ pureOut = <<>>
    /\ pureDone = FALSE

NextAnalytics == ApplyCalculatePercentageChange

SpecAnalytics == InitAnalytics /\ [][NextAnalytics]_vars

-----------------------------------------------------------------------------
(* Properties of _calculate_percentage_change, checked under SpecAnalytics *)

PercentageApplied == pureFn = "calculate_percentage_change" /\ pureDone

(* twice the distance, in units of 1 / old_value hundredths, between the *)
(* returned percentage and (new - old) / old * 100                       *)
TwiceRoundingError ==
    LET exact == (pureIn.new_value - pureIn.old_value) * 10000
        given == pureOut.hundredths * pureIn.old_value
    IN  IF given >= exact THEN 2 * (given - exact) ELSE 2 * (exact - given)

(* C20: for old, new >= 0 the function returns, never raising           *)
(* ZeroDivisionError: 100.0 when old = 0 and new > 0, 0.0 when both are *)
(* 0, and otherwise the hundredth nearest to (new - old) / old * 100,   *)
(* the even hundredth when that value is halfway between two            *)
PercentageChangeIsRoundedRatio ==
    PercentageApplied
    => /\ pureOut.kind = "return"
       /\ pureIn.old_value = 0 /\ pureIn.new_value > 0 => pureOut.hundredths = 10000
       /\ pureIn.old_value = 0 /\ pureIn.new_value = 0 => pureOut.hundredths = 0
       /\ pureIn.old_value > 0
          => /\ TwiceRoundingError <= pureIn.old_value
             /\ TwiceRoundingError = pureIn.old_value => pureOut.hundredths % 2 = 0

(* C20 witness: from 32 to 33 the change is 3.125, returned as 3.12 *)
HalfwayChangeRoundedToEven ==
    /\ PercentageApplied
    /\ pureIn.old_value = 32
    /\ pureIn.new_value = 33
    /\ pureOut.kind = "return"
    /\ pureOut.hundredths = 312

-----------------------------------------------------------------------------
(* AnomalyDetector._check_single_rule and _calculate_severity,              *)
(* monitoring/utils/anomaly_detector.py                                     *)
(* Values and thresholds are whole numbers in steps of 5, so that none is   *)
(* None; a rule is the AlertRule row without its display fields.            *)
(* Specification: SpecAnomaly                                               *)

MaxSteps == 12

(* the metric values, growth rates and thresholds of the rules checked *)
MetricValues == { 5 * k : k \in (0 - MaxSteps)..MaxSteps }

ThresholdValues == {-20, -10, 0, 10, 20}

COMPARISON_CHOICES == {"dod", "wow", "absolute"}

AlertRule(id, metric, comparison_type, threshold_min, threshold_max) ==
    [ id              |-> id,
      metric          |-> metric,
      comparison_type |-> comparison_type,
      threshold_min   |-> threshold_min,
      threshold_max   |-> threshold_max ]

NoAnomaly == [kind |-> "none"]

Abs(x) == IF x < 0 THEN 0 - x ELSE x

(* the severity with the bands open at their lower ends *)
CalculateSeverityStrict(current_value, threshold_value) ==
    IF threshold_value = 0
    THEN IF current_value # 0 THEN "critical" ELSE "low"
    ELSE IF Abs(current_value - threshold_value) > 2 * Abs(threshold_value) THEN "critical"
    ELSE IF Abs(current_value - threshold_value) > Abs(threshold_value) THEN "high"
    ELSE IF 2 * Abs(current_value - threshold_value) > Abs(threshold_value) THEN "medium"
    ELSE "low"

(* deviation_ratio = |current - threshold| / |threshold| compared with 2.0, *)
(* 1.0 and 0.5; with threshold 0 the ratio is inf, or 0 when current is 0   *)
CalculateSeverity(current_value, threshold_value) ==
    IF threshold_value = 0
    THEN IF current_value # 0 THEN "critical" ELSE "low"
    ELSE IF Abs(current_value - threshold_value) >= 2 * Abs(threshold_value) THEN "critical"
    ELSE IF Abs(current_value - threshold_value) >= Abs(threshold_value) THEN "high"
    ELSE IF 2 * Abs(current_value - threshold_value) >= Abs(threshold_value) THEN "medium"
    ELSE "low"

(* current_data.get(rule.metric, 0) or growth_rates.get(metric_key, 0) *)
CurrentValue(rule, current_data, growth_rates) ==
    IF rule.comparison_type = "absolute"
    THEN IF rule.metric \in DOMAIN current_data THEN current_data[rule.metric] ELSE 0
    ELSE IF <<rule.metric, rule.comparison_type>> \in DOMAIN growth_rates
         THEN growth_rates[<<rule.metric, rule.comparison_type>>]
         ELSE 0

Anomaly(rule, current_value, threshold_value, trigger_type) ==
    [ kind            |-> "anomaly",
      rule_id         |-> rule.id,
      metric          |-> rule.metric,
      comparison_type |-> rule.comparison_type,
      current_value   |-> current_value,
      threshold_value |-> threshold_value,
      trigger_type    |-> trigger_type,
      severity        |-> CalculateSeverity(current_value, threshold_value) ]

(* the rule check with the test of threshold_min made after threshold_max *)
CheckSingleRuleMinLast(rule, current_data, growth_rates) ==
    LET current_value == CurrentValue(rule, current_data, growth_rates)
        below == rule.threshold_min # None /\ current_value < rule.threshold_min
        above == rule.threshold_max # None /\ current_value > rule.threshold_max
    IN  IF current_value = None THEN NoAnomaly
        ELSE IF below THEN Anomaly(rule, current_value, rule.threshold_min, "below_minimum")
        ELSE IF above THEN Anomaly(rule, current_value, rule.threshold_max, "above_maximum")
        ELSE NoAnomaly

(* a current value of None (unique_devices of an Android payload) makes  *)
(* the first comparison with a configured threshold raise TypeError, and *)
(* the except clause returns None; with no threshold nothing triggers    *)
CheckSingleRule(rule, current_data, growth_rates) ==
    LET current_value == CurrentValue(rule, current_data, growth_rates)
        below == rule.threshold_min # None /\ current_value < rule.threshold_min
        above == rule.threshold_max # None /\ current_value > rule.threshold_max
    IN  IF current_value = None THEN NoAnomaly
        ELSE IF above THEN Anomaly(rule, current_value, rule.threshold_max, "above_maximum")
        ELSE IF below THEN Anomaly(rule, current_value, rule.threshold_min, "below_minimum")
        ELSE NoAnomaly

ApplyCheckSingleRule ==
    /\ pureFn = "check_single_rule"
    /\ ~pureDone
    /\ pureOut' = CheckSingleRule(pureIn.rule, pureIn.current_data, pureIn.growth_rates)
    /\ pureDone' = TRUE
    /\ UNCHANGED <<pureFn, pureIn, execVars, ingestVars, clientVars>>

ApplyCalculateSeverity ==
    /\ pureFn = "calculate_severity"
    /\ ~pureDone
    /\ pureOut' = CalculateSeverity(pureIn.current_value, pureIn.threshold_value)
    /\ pureDone' = TRUE
    /\ UNCHANGED <<pureFn, pureIn, execVars, ingestVars, clientVars>>

(* the rules of one app on downloads, and on unique_devices by absolute value *)
AlertRules ==
    { AlertRule(1, metric, comparison_type, threshold_min, threshold_max) :
        metric \in {"downloads"}, comparison_type \in COMPARISON_CHOICES,
        threshold_min \in ThresholdValues \cup {None},
        threshold_max \in ThresholdValues \cup {None} }
    \cup
    { AlertRule(2, "unique_devices", "absolute", threshold_min, threshold_max) :
        threshold_min \in {None, 10}, threshold_max \in {None, 20} }

CheckSingleRuleInputs ==
    { [ rule |-> rule,
        current_data |-> [m \in {"downloads", "unique_devices"} |->
                             IF m = rule.metric /\ rule.comparison_type = "absolute"
                             THEN v ELSE 0],
        growth_rates |-> [k \in {<<"downloads", "dod">>, <<"downloads", "wow">>} |->
                             IF k = <<rule.metric, rule.comparison_type>> THEN v ELSE 0] ] :
        rule \in {r \in AlertRules : r.metric = "downloads"}, v \in MetricValues }
    \cup
    { [ rule |-> rule,
        current_data |-> [m \in {"downloads", "unique_devices"} |->
                             IF m = "unique_devices" THEN v ELSE 0],
        growth_rates |-> [k \in {<<"downloads", "dod">>, <<"downloads", "wow">>} |-> 0] ] :
        rule \in {r \in AlertRules : r.metric = "unique_devices"}, v \in {None, 0, 30} }

InitAnomaly ==
    /\ ExecIdle
    /\ run = NoRun
    /\ ClientIdle
    /\ \/ /\ pureFn = "check_single_rule"
          /\ pureIn \in CheckSingleRuleInputs
       \/ /\ pureFn = "calculate_severity"
          /\ \E current_value \in MetricValues, threshold_value \in ThresholdValues :
               pureIn = [current_value |-> current_value,
                         threshold_value |-> threshold_value]
    /\ pureOut = <<>>
    /\ pureDone = FALSE

NextAnomaly ==
    \/ ApplyCheckSingleRule
    \/ ApplyCalculateSeverity

SpecAnomaly == InitAnomaly /\ [][NextAnomaly]_vars

-----------------------------------------------------------------------------
(* Properties of the rule check, checked under SpecAnomaly *)

RuleChecked == pureFn = "check_single_rule" /\ pureDone

(* the value the rule looks at, when it is a number *)
NumericCurrent ==
    /\ pureFn = "check_single_rule"
    /\ IF pureIn.rule.comparison_type = "absolute"
       THEN pureIn.current_data[pureIn.rule.metric] # None
       ELSE TRUE

CurrentOfRule ==
    IF pureIn.rule.comparison_type = "absolute"
    THEN pureIn.current_data[pureIn.rule.metric]
    ELSE pureIn.growth_rates[<<pureIn.rule.metric, pureIn.rule.comparison_type>>]

BelowMinimum ==
    pureIn.rule.threshold_min # None /\ CurrentOfRule < pureIn.rule.threshold_min

AboveMaximum ==
    pureIn.rule.threshold_max # None /\ CurrentOfRule > pureIn.rule.threshold_max

(* C21: for a numeric current value the rule check returns an anomaly    *)
(* iff current < threshold_min or current > threshold_max, each only     *)
(* when configured and with strict comparison; above the maximum the     *)
(* anomaly is above_maximum with threshold_max, also when the minimum is *)
(* breached too, and otherwise it is below_minimum with threshold_min    *)
RuleTriggersOnStrictBreach ==
    RuleChecked /\ NumericCurrent
    => /\ pureOut.kind = "anomaly" <=> BelowMinimum \/ AboveMaximum
       /\ AboveMaximum
          => /\ pureOut.trigger_type = "above_maximum"
             /\ pureOut.threshold_value = pureIn.rule.threshold_max
       /\ BelowMinimum /\ ~AboveMaximum
          => /\ pureOut.trigger_type = "below_minimum"
             /\ pureOut.threshold_value = pureIn.rule.threshold_min
       /\ pureOut.kind = "anomaly" => pureOut.current_value = CurrentOfRule

(* C21 witness: a day-over-day rate of 15 with threshold_min 20 and *)
(* threshold_max 10 breaches both, and is reported above the maximum *)
BothBreachedReportsMaximum ==
    /\ RuleChecked
    /\ pureIn.rule.comparison_type = "dod"
    /\ pureIn.rule.threshold_min = 20
    /\ pureIn.rule.threshold_max = 10
    /\ pureIn.growth_rates[<<"downloads", "dod">>] = 15
    /\ pureOut.kind = "anomaly"
    /\ pureOut.trigger_type = "above_maximum"
    /\ pureOut.threshold_value = 10

SeverityApplied == pureFn = "calculate_severity" /\ pureDone

(* |current - threshold| in units of |threshold| / 2: 1 is ratio 0.5 *)
TwiceDeviation == 2 * Abs(pureIn.current_value - pureIn.threshold_value)

(* C22: the severity is critical for a deviation ratio >= 2.0, high for *)
(* 1.0 <= ratio < 2.0, medium for 0.5 <= ratio < 1.0 and low below 0.5; *)
(* with threshold 0 it is critical when current is not 0; and the       *)
(* severity of an anomaly is the one of its current value and threshold *)
SeverityFollowsDeviationRatio ==
    /\ SeverityApplied /\ pureIn.threshold_value # 0
       => LET t == Abs(pureIn.threshold_value)
          IN  /\ pureOut = "critical" <=> TwiceDeviation >= 4 * t
              /\ pureOut = "high" <=> TwiceDeviation >= 2 * t /\ TwiceDeviation < 4 * t
              /\ pureOut = "medium" <=> TwiceDeviation >= t /\ TwiceDeviation < 2 * t
              /\ pureOut = "low" <=> TwiceDeviation < t
    /\ SeverityApplied /\ pureIn.threshold_value = 0 /\ pureIn.current_value # 0
       => pureOut = "critical"
    /\ RuleChecked /\ pureOut.kind = "anomaly"
       => pureOut.severity
            = CalculateSeverity(pureOut.current_value, pureOut.threshold_value)

(* C22 witness: current 30 against threshold 20 is a ratio of exactly *)
(* 0.5, classified medium                                             *)
RatioOfHalfIsMedium ==
    /\ SeverityApplied
    /\ pureIn.current_value = 30
    /\ pureIn.threshold_value = 20
    /\ pureOut = "medium"

-----------------------------------------------------------------------------
(* The executor when the ingestion command hangs: call_command never     *)
(* returns or raises by itself (a network wait without end), so a call   *)
(* ends only when the SIGALRM handler raises TimeoutError into it.       *)
(* Specification: SpecHung, with every enabled step eventually taken     *)

(* TaskExecutor._execute_task, lines 158-239, for a command that hangs: *)
(* the handler fires in the main thread once the alarm has run out      *)
ExecuteTaskInterrupted(i) ==
    /\ threads[i].pc = "call"
    /\ \E outcome \in TimeoutOutcomes(threads[i].main, threads[i].timeout_minutes,
                                       now - threads[i].mem.started_at) :
         LET t == AfterFinalize(AfterCommand(threads[i], outcome), now)
         IN  /\ threads' = [threads EXCEPT ![i] = t]
             /\ executions' = [executions EXCEPT
                                  ![threads[i].exec] = SaveCompleted(@, t.mem)]
    /\ UNCHANGED <<ticks, now, schedules, pureVars, ingestVars, clientVars>>

NextHung ==
    \/ CheckAndExecuteSchedules
    \/ ExecuteScheduleManual
    \/ \E i \in 1..Len(threads) : ExecuteSchedule(i)
    \/ \E i \in 1..Len(threads) : ExecuteTaskStart(i)
    \/ \E i \in 1..Len(threads) : ExecuteTaskInterrupted(i)

SpecHung == Init /\ [][NextHung]_vars /\ WF_vars(NextHung)

-----------------------------------------------------------------------------
(* Properties of hung executions, checked under SpecHung *)

(* thread i is inside call_command for longer than its timeout_minutes *)
Overdue(i) ==
    /\ i <= Len(threads)
    /\ threads[i].pc = "call"
    /\ now - threads[i].mem.started_at
         >= threads[i].timeout_minutes * 60 * MillisPerSecond

StillRunning(i) ==
    /\ i <= Len(threads)
    /\ threads[i].exec # 0
    /\ executions[threads[i].exec].status = "running"

(* C23: an execution launched by the scheduler tick whose ingestion call *)
(* has run longer than the schedule's timeout_minutes eventually leaves  *)
(* status running                                                        *)
OverdueScheduledRunEnds ==
    \A i \in 1..MaxThreads :
        (Overdue(i) /\ threads[i].entry = "execute_schedule_auto") ~> ~StillRunning(i)

(* the same for a manual trigger, which runs in the main thread *)
OverdueMainThreadRunEnds ==
    \A i \in 1..MaxThreads : (Overdue(i) /\ threads[i].main) ~> ~StillRunning(i)

(* a manual run in the main thread was overdue and has been finalized *)
MainThreadRunInterrupted ==
    \E i \in 1..Len(threads) :
        /\ threads[i].main
        /\ threads[i].pc = "done"
        /\ threads[i].caught = "TimeoutError"

-----------------------------------------------------------------------------
(* TaskScheduler.start / stop / _scheduler_loop,                          *)
(* monitoring/utils/task_executor.py, on a clock in milliseconds.         *)
(* A loop thread is at "test" (about to evaluate `while self.running`),   *)
(* in "sleep" until wake_at, or "exited".  One pass of the check reads    *)
(* the time once, at its start; the loop sleeps again TickPeriod later.   *)
(* Specification: SpecLoop                                                *)

MaxCalls == 3
MaxTicks == 3

(* scheduler_thread.join(timeout=5) *)
JoinTimeoutSeconds == 5

(* start_scheduler() is called at any time of a minute *)
StartOffsets == {0, 30000, 59800}

(* now.replace(second=0, microsecond=0), as the number of the minute *)
CurrentMinute(clock) == clock \div (60 * MillisPerSecond)

NewLoop ==
    [ pc      |-> "test",
      wake_at |-> 0,
      minutes |-> <<>>,     \* current_minute of every pass of the check
      stopped |-> FALSE,    \* stop() has been called since the loop started
      late    |-> 0 ]       \* passes of the check made after that stop()

NewScheduler(clock) ==
    [ pc      |-> "ready",
      running |-> FALSE,
      thread  |-> 0,        \* scheduler_thread: index in loops, 0 for None
      loops   |-> <<>>,     \* every loop thread ever started
      calls   |-> 0,        \* start() and stop() calls so far
      clock   |-> clock ]

(* TaskScheduler.start *)
StartScheduler(s) ==
    IF s.running THEN [s EXCEPT !.calls = @ + 1]
    ELSE [s EXCEPT !.running = TRUE,
                   !.loops = Append(@, NewLoop),
                   !.thread = Len(s.loops) + 1,
                   !.calls = @ + 1]

(* the loop thread ends within the timeout of join: it is about to test *)
(* self.running, or wakes up in time to test it                         *)
JoinSucceeds(s, l) ==
    \/ s.loops[l].pc = "test"
    \/ /\ s.loops[l].pc = "sleep"
       /\ s.loops[l].wake_at <= s.clock + JoinTimeoutSeconds * MillisPerSecond

(* TaskScheduler.stop: running = False, then join(timeout=5) on the last *)
(* loop thread; a loop that sleeps longer stays asleep                   *)
StopScheduler(s) ==
    [s EXCEPT !.running = FALSE,
              !.calls = @ + 1,
              !.loops = [l \in 1..Len(s.loops) |->
                           IF s.loops[l].pc = "exited" THEN s.loops[l]
                           ELSE IF l = s.thread /\ JoinSucceeds(s, l)
                           THEN [s.loops[l] EXCEPT !.pc = "exited", !.stopped = TRUE]
                           ELSE [s.loops[l] EXCEPT !.stopped = TRUE]]]

Start ==
    /\ sched.pc = "ready"
    /\ sched.calls < MaxCalls
    /\ sched' = StartScheduler(sched)
    /\ UNCHANGED <<execVars, pureVars, ingestVars, wrapper, fetch, store, proc>>

Stop ==
    /\ sched.pc = "ready"
    /\ sched.calls < MaxCalls
    /\ sched' = StopScheduler(sched)
    /\ UNCHANGED <<execVars, pureVars, ingestVars, wrapper, fetch, store, proc>>

(* `while self.running:` and one pass of _check_and_execute_schedules *)
LoopTest(l) ==
    /\ sched.pc = "ready"
    /\ sched.loops[l].pc = "test"
    /\ Len(sched.loops[l].minutes) < MaxTicks
    /\ sched' = IF ~sched.running
                THEN [sched EXCEPT !.loops[l].pc = "exited"]
                ELSE [sched EXCEPT
                        !.loops[l].pc = "sleep",
                        !.loops[l].wake_at = sched.clock + TickPeriod,
                        !.loops[l].minutes = Append(@, CurrentMinute(sched.clock)),
                        !.loops[l].late = IF sched.loops[l].stopped THEN @ + 1 ELSE @]
    /\ UNCHANGED <<execVars, pureVars, ingestVars, wrapper, fetch, store, proc>>

(* time.sleep(60) returns: the sleeping loop that is due first wakes up *)
LoopWake(l) ==
    /\ sched.pc = "ready"
    /\ sched.loops[l].pc = "sleep"
    /\ \A k \in 1..Len(sched.loops) :
         sched.loops[k].pc = "sleep" => sched.loops[l].wake_at <= sched.loops[k].wake_at
    /\ \A k \in 1..Len(sched.loops) : sched.loops[k].pc # "test"
    /\ sched' = [sched EXCEPT !.loops[l].pc = "test",
                              !.clock = sched.loops[l].wake_at]
    /\ UNCHANGED <<execVars, pureVars, ingestVars, wrapper, fetch, store, proc>>

InitLoop ==
    /\ ExecIdle
    /\ PureIdle
    /\ run = NoRun
    /\ wrapper = [pc |-> "none"]
    /\ fetch = [pc |-> "none"]
    /\ store = [pc |-> "none"]
    /\ proc = [pc |-> "none"]
    /\ \E clock \in StartOffsets : sched = NewScheduler(clock)

NextLoop ==
    \/ Start
    \/ Stop
    \/ \E l \in 1..Len(sched.loops) : LoopTest(l)
    \/ \E l \in 1..Len(sched.loops) : LoopWake(l)

SpecLoop == InitLoop /\ [][NextLoop]_vars

-----------------------------------------------------------------------------
(* Properties of the scheduler loop, checked under SpecLoop *)

(* C24: the passes of the check of a loop that has not been stopped fall *)
(* into consecutive minutes: no minute lies between two consecutive      *)
(* passes and no minute is checked by two of them, so a schedule that    *)
(* matches a minute is triggered in it exactly once                      *)
EveryMinuteCheckedOnce ==
    sched.pc = "ready"
    => \A l \in 1..Len(sched.loops) :
         ~sched.loops[l].stopped
         => \A k \in 2..Len(sched.loops[l].minutes) :
              sched.loops[l].minutes[k] = sched.loops[l].minutes[k - 1] + 1

(* no minute is checked by two passes of one loop *)
NoMinuteCheckedTwice ==
    sched.pc = "ready"
    => \A l \in 1..Len(sched.loops) :
         \A j, k \in 1..Len(sched.loops[l].minutes) :
            sched.loops[l].minutes[j] = sched.loops[l].minutes[k] => j = k

(* C28: at most one loop thread is ticking: at most one loop that was *)
(* not stopped is alive, and no loop makes a pass of the check after  *)
(* the stop() that ended it                                           *)
AtMostOneLoopTicks ==
    sched.pc = "ready"
    => /\ Cardinality({ l \in 1..Len(sched.loops) :
                          sched.loops[l].pc # "exited" /\ ~sched.loops[l].stopped }) <= 1
       /\ \A l \in 1..Len(sched.loops) : sched.loops[l].late = 0

(* start() while running starts no second loop *)
StartWhileRunningStartsNoLoop ==
    [][sched.pc = "ready" /\ sched.running /\ sched'.running
       => Len(sched'.loops) = Len(sched.loops)]_vars

-----------------------------------------------------------------------------
(* SpecInstances: _process_session_report_data and the instance loop of    *)
(* _process_install_report_data over report instances whose segment fetch  *)
(* succeeds or fails                                                       *)

MaxInstances == 2

SessionRow(date, sessions, unique_devices) ==
    [date |-> date, sessions |-> sessions, unique_devices |-> unique_devices]

SessionRows ==
    { SessionRow(d, s, 1) : d \in ReportDates, s \in {1, 2} }

(* one report instance of the vendor: its id (None when the entry has    *)
(* none), whether the request for its segments raises, and the rows of   *)
(* the one segment it holds                                              *)
ReportInstance(id, fails, rows) ==
    [id |-> id, fails |-> fails, rows |-> rows]

(* _get_instance_segments_data: the dictionary it returns, by its keys.  *)
(* The except clause returns an empty list under 'segments' next to the  *)
(* 'error' key                                                           *)
GetInstanceSegmentsData(instance) ==
    IF instance.fails
    THEN [ keys     |-> {"instance_id", "segments", "error"},
           segments |-> <<>> ]
    ELSE [ keys     |-> {"instance_id", "segments", "segment_count"},
           segments |-> <<instance.rows>> ]

(* the branch of `if segments_data and 'segments' in segments_data: ...  *)
(* elif segments_data and 'error' in segments_data:` that is taken       *)
InstanceBranch(segments_data) ==
    IF "segments" \in segments_data.keys THEN "segments"
    ELSE IF "error" \in segments_data.keys THEN "error"
    ELSE "none"

RECURSIVE FailedInstances(_, _)
(* processed_data['failed_instances'] after the instances from k on *)
FailedInstances(instances, k) ==
    IF k > Len(instances) THEN 0
    ELSE LET instance == instances[k]
             rest == FailedInstances(instances, k + 1)
         IN  IF instance.id = None THEN rest
             ELSE IF InstanceBranch(GetInstanceSegmentsData(instance)) = "error"
             THEN rest + 1
             ELSE rest

RECURSIVE SegmentRows(_, _)
(* the records of the segments the loop reads, in the order it reads them *)
SegmentRows(instances, k) ==
    IF k > Len(instances) THEN <<>>
    ELSE LET instance == instances[k]
             segments_data == GetInstanceSegmentsData(instance)
             rest == SegmentRows(instances, k + 1)
         IN  IF instance.id = None THEN rest
             ELSE IF InstanceBranch(segments_data) = "segments"
             THEN (IF segments_data.segments = <<>> THEN rest
                   ELSE segments_data.segments[1] \o rest)
             ELSE rest

RECURSIVE SumRows(_, _, _)
(* the sum of one column over the records at the positions K *)
SumRows(rows, K, column) ==
    IF K = {} THEN 0
    ELSE LET k == CHOOSE x \in K : TRUE
         IN  rows[k][column] + SumRows(rows, K \ {k}, column)

(* _process_session_report_data *)
ProcessSessionReportData(instances, target_date) ==
    LET rows == SegmentRows(instances, 1)
        At(d) == {k \in 1..Len(rows) : rows[k].date = d}
        dates == {rows[k].date : k \in 1..Len(rows)}
        daily_data == [d \in dates |->
                          [ sessions       |-> SumRows(rows, At(d), "sessions"),
                            unique_devices |-> SumRows(rows, At(d), "unique_devices"),
                            records_count  |-> Cardinality(At(d)) ]]
        filtered == target_date # None /\ dates # {}
    IN  [ total_sessions |->
              IF filtered
              THEN (IF target_date \in dates THEN daily_data[target_date].sessions ELSE 0)
              ELSE SumRows(rows, 1..Len(rows), "sessions"),
          total_unique_devices |->
              IF filtered
              THEN (IF target_date \in dates THEN daily_data[target_date].unique_devices ELSE 0)
              ELSE SumRows(rows, 1..Len(rows), "unique_devices"),
          daily_data       |-> daily_data,
          failed_instances |-> FailedInstances(instances, 1),
          total_instances  |-> Len(instances) ]

(* _process_install_report_data over several instances: the records of   *)
(* the segments it reads are aggregated as those of one segment are, and *)
(* the counters of the instance loop are kept next to the totals         *)
ProcessInstallInstances(instances, has_event, target_date) ==
    [ report           |-> ProcessInstallReportData(SegmentRows(instances, 1), has_event,
                                                    target_date, "standard"),
      failed_instances |-> FailedInstances(instances, 1),
      total_instances  |-> Len(instances) ]

(* the lists of instances of a report: a failing fetch holds no rows *)
InstancesOver(Rows) ==
    LET One == { ReportInstance(id, TRUE, <<>>) : id \in {None, 1} }
               \cup { ReportInstance(id, FALSE, rows) :
                        id \in {None, 1},
                        rows \in {<<>>} \cup { <<r>> : r \in Rows } }
    IN  UNION { [1..n -> One] : n \in 0..MaxInstances }

InstallRowsOfInstances(has_event) ==
    { r \in CsvRows(has_event) : r.counts = 1 /\ r.source_type = "Unavailable" }

ApplyProcessSessionReportData ==
    /\ pureFn = "process_session_report_data"
    /\ ~pureDone
    /\ pureOut' = ProcessSessionReportData(pureIn.instances, pureIn.target_date)
    /\ pureDone' = TRUE
    /\ UNCHANGED <<pureFn, pureIn, execVars, ingestVars, clientVars>>

ApplyProcessInstallInstances ==
    /\ pureFn = "process_install_report_data"
    /\ ~pureDone
    /\ pureOut' = ProcessInstallInstances(pureIn.instances, pureIn.has_event,
                                          pureIn.target_date)
    /\ pureDone' = TRUE
    /\ UNCHANGED <<pureFn, pureIn, execVars, ingestVars, clientVars>>

InitInstances ==
    /\ ExecIdle
    /\ run = NoRun
    /\ ClientIdle
    /\ \/ /\ pureFn = "process_session_report_data"
          /\ \E instances \in InstancesOver(SessionRows), target_date \in {None, 1, 3} :
                pureIn = [instances |-> instances, target_date |-> target_date]
       \/ /\ pureFn = "process_install_report_data"
          /\ \E has_event \in BOOLEAN, target_date \in {None, 1} :
             \E instances \in InstancesOver(InstallRowsOfInstances(has_event)) :
                pureIn = [ instances |-> instances, has_event |-> has_event,
                           target_date |-> target_date ]
    /\ pureOut = <<>>
    /\ pureDone = FALSE

NextInstances ==
    \/ ApplyProcessSessionReportData
    \/ ApplyProcessInstallInstances

SpecInstances == InitInstances /\ [][NextInstances]_vars

(* the instances of the input that have an id and whose fetch raised *)
FailedFetches ==
    {k \in 1..Len(pureIn.instances) :
        pureIn.instances[k].id # None /\ pureIn.instances[k].fails}

InstancesProcessed ==
    /\ pureFn \in {"process_session_report_data", "process_install_report_data"}
    /\ pureDone

(* C25: an instance whose segment fetch fails is skipped and counted:   *)
(* failed_instances is the number of instances whose fetch failed       *)
FailedInstancesCounted ==
    InstancesProcessed => pureOut.failed_instances = Cardinality(FailedFetches)

(* the part of C25 that holds: the records of every instance whose    *)
(* fetch succeeded are aggregated, whatever failed before it            *)
LaterInstancesStillProcessed ==
    (pureFn = "process_session_report_data" /\ pureDone)
    => \A k \in 1..Len(pureIn.instances) :
          LET instance == pureIn.instances[k]
          IN  (instance.id # None /\ ~instance.fails /\ instance.rows # <<>>)
              => /\ instance.rows[1].date \in DOMAIN pureOut.daily_data
                 /\ pureOut.daily_data[instance.rows[1].date].sessions
                      >= instance.rows[1].sessions

(* a failed instance is followed by one whose records were aggregated *)
ProcessedAfterFailure ==
    /\ pureFn = "process_session_report_data"
    /\ pureDone
    /\ Len(pureIn.instances) = 2
    /\ pureIn.instances[1].id # None
    /\ pureIn.instances[1].fails
    /\ pureOut.total_sessions > 0

-----------------------------------------------------------------------------
(* The gap filling of Android, checked under SpecStore *)

(* a step of SpecStore in which a run on Android got its payload and *)
(* wrote to the table                                                *)
AndroidRunSaved ==
    /\ store.vendor.platform = "android"
    /\ store'.runs = store.runs + 1
    /\ ~store'.raised

-----------------------------------------------------------------------------
(* SpecCapture: the redirection of sys.stdout in TaskExecutor._execute_task *)
(* when the scheduler has started several task threads for schedules of    *)
(* the same minute.  sys.stdout is one attribute of the process; every     *)
(* execution has its own StringIO.  A stream is named by the number of the *)
(* execution whose StringIO it is, RealStdout is the stream of the         *)
(* process.  sys.stderr is redirected by the same statements and behaves   *)
(* the same.                                                               *)

(* the summary lines the command of one execution writes *)
MaxLines == 2

RealStdout == 0

(* the summary of the ingestion run of the execution i: the runs differ *)
(* in their counts                                                      *)
SummaryOf(i) ==
    [ total_apps |-> i, success_count |-> i, error_count |-> 0,
      alerts_generated |-> i, notifications_sent |-> i ]

(* the lines the command of the execution i writes: the first lines of *)
(* its summary, up to the count of the apps it processed                *)
CommandLines(i) ==
    SubSeq(PrintSummary(SummaryOf(i)), 1, MaxLines)

NewCapture ==
    [ pc          |-> "start",
      old_stdout  |-> RealStdout,
      stdout      |-> RealStdout,     \* self.stdout of the command
      written     |-> 0,
      output_log  |-> <<>>,
      stats       |-> InitialStats ]

NewProcess ==
    [ pc         |-> "run",
      sys_stdout |-> RealStdout,
      captures   |-> [i \in 1..MaxThreads |-> <<>>],   \* the StringIO of each execution
      console    |-> <<>>,                              \* what the process stream got
      ex         |-> [i \in 1..MaxThreads |-> NewCapture] ]

(* old_stdout = sys.stdout; sys.stdout = stdout_capture *)
Redirect(i) ==
    /\ proc.pc = "run"
    /\ proc.ex[i].pc = "start"
    /\ proc' = [proc EXCEPT !.ex[i].old_stdout = proc.sys_stdout,
                            !.ex[i].pc = "redirected",
                            !.sys_stdout = i]
    /\ UNCHANGED <<execVars, pureVars, ingestVars, wrapper, fetch, store, sched>>

(* call_command instantiates the command, whose stdout wraps the stream *)
(* sys.stdout names at that moment                                      *)
BindStdout(i) ==
    /\ proc.pc = "run"
    /\ proc.ex[i].pc = "redirected"
    /\ proc' = [proc EXCEPT !.ex[i].stdout = proc.sys_stdout,
                            !.ex[i].pc = "running"]
    /\ UNCHANGED <<execVars, pureVars, ingestVars, wrapper, fetch, store, sched>>

(* self.stdout.write(...) of the command: one line to the stream it wraps *)
WriteLine(i) ==
    /\ proc.pc = "run"
    /\ proc.ex[i].pc = "running"
    /\ proc.ex[i].written < Len(CommandLines(i))
    /\ LET line == [by |-> i, line |-> CommandLines(i)[proc.ex[i].written + 1]]
           to == proc.ex[i].stdout
       IN  proc' = IF to = RealStdout
                   THEN [proc EXCEPT !.console = Append(@, line),
                                     !.ex[i].written = @ + 1]
                   ELSE [proc EXCEPT !.captures[to] = Append(@, line),
                                     !.ex[i].written = @ + 1]
    /\ UNCHANGED <<execVars, pureVars, ingestVars, wrapper, fetch, store, sched>>

(* finally: sys.stdout = old_stdout, once the command has returned *)
Restore(i) ==
    /\ proc.pc = "run"
    /\ proc.ex[i].pc = "running"
    /\ proc.ex[i].written = Len(CommandLines(i))
    /\ proc' = [proc EXCEPT !.sys_stdout = proc.ex[i].old_stdout,
                            !.ex[i].pc = "restored"]
    /\ UNCHANGED <<execVars, pureVars, ingestVars, wrapper, fetch, store, sched>>

(* the text of the lines of a stream *)
TextOf(stream) == [k \in 1..Len(stream) |-> stream[k].line]

(* output_log = stdout_capture.getvalue(); stats.update(parse); *)
(* execution.mark_completed(...)                                *)
FinalizeCapture(i) ==
    /\ proc.pc = "run"
    /\ proc.ex[i].pc = "restored"
    /\ proc' = [proc EXCEPT
                   !.ex[i].output_log = proc.captures[i],
                   !.ex[i].stats = StatsUpdate(InitialStats,
                                               ParseExecutionStats(TextOf(proc.captures[i]))),
                   !.ex[i].pc = "done"]
    /\ UNCHANGED <<execVars, pureVars, ingestVars, wrapper, fetch, store, sched>>

InitCapture ==
    /\ ExecIdle
    /\ PureIdle
    /\ run = NoRun
    /\ wrapper = [pc |-> "none"]
    /\ fetch = [pc |-> "none"]
    /\ store = [pc |-> "none"]
    /\ sched = [pc |-> "none"]
    /\ proc = NewProcess

NextCapture ==
    \E i \in 1..MaxThreads :
       \/ Redirect(i)
       \/ BindStdout(i)
       \/ WriteLine(i)
       \/ Restore(i)
       \/ FinalizeCapture(i)

SpecCapture == InitCapture /\ [][NextCapture]_vars

(* C27: the output_log and the counters of a finished execution come  *)
(* from its own ingestion run only: the log holds exactly the lines   *)
(* its own command wrote, and the counters are those of its summary   *)
OutputLogIsOwnOutput ==
    proc.pc = "run"
    => \A i \in 1..MaxThreads :
          proc.ex[i].pc = "done"
          => /\ proc.ex[i].output_log
                  = [k \in 1..Len(CommandLines(i)) |-> [by |-> i, line |-> CommandLines(i)[k]]]
             /\ proc.ex[i].stats.success_count = SummaryOf(i).success_count

(* an execution that ran alone has its own output in its log *)
LoneExecutionLogsItself ==
    /\ proc.pc = "run"
    /\ proc.ex[1].pc = "done"
    /\ proc.ex[1].stats.success_count = SummaryOf(1).success_count
    /\ \A i \in 2..MaxThreads : proc.ex[i].pc = "start"

-----------------------------------------------------------------------------
(* SpecRetryBudget: calls of retry_execution, one after the other or side *)
(* by side, over a table that holds one scheduled execution that ended    *)
(* failed or timeout                                                      *)

(* a scheduled execution of the schedule s as mark_completed left it *)
EndedExecution(s, status) ==
    [NewExecution(s, "scheduled", ScheduleTable[s].app, None, 0) EXCEPT
        !.status = status,
        !.started_at = 0,
        !.completed_at = 0,
        !.duration_seconds = 0]

InitRetryBudget ==
    /\ \E s \in Schedules, status \in {"failed", "timeout"} :
          executions = <<EndedExecution(s, status)>>
    /\ threads = <<>>
    /\ ticks = 0
    /\ now = 0
    /\ schedules = ScheduleTable
    /\ PureIdle
    /\ run = NoRun
    /\ ClientIdle

NextRetryBudget ==
    \/ RetryExecution
    \/ \E i \in 1..Len(threads) :
          \/ ExecuteTaskStart(i)
          \/ ExecuteTaskRun(i)

SpecRetryBudget == InitRetryBudget /\ [][NextRetryBudget]_vars

(* the retry executions of the table; all stem from its first row *)
RetryExecutions ==
    {e \in 1..Len(executions) : executions[e].trigger_type = "retry"}

(* C29: the number of retry executions created from a scheduled        *)
(* execution that ended failed or timeout, and from its retries, is at *)
(* most the retry_count of its schedule                                *)
RetriesWithinBudget ==
    Len(executions) >= 1
    => Cardinality(RetryExecutions) <= ScheduleRow(executions[1].schedule).retry_count

(* what does hold: no retry execution carries a retry_count above the *)
(* budget of its schedule                                             *)
RetryCountWithinBudget ==
    \A e \in RetryExecutions :
       executions[e].retry_count <= ScheduleRow(executions[e].schedule).retry_count

(* the first row was retried twice, each retry carrying retry_count 1 *)
RetriedTwiceFromOriginal ==
    /\ Len(executions) = 3
    /\ executions[1].retry_count = 0
    /\ executions[2].retry_count = 1
    /\ executions[3].retry_count = 1

-----------------------------------------------------------------------------
(* The error count of a run that raised, checked under Spec *)

(* the threads whose command ended with a CommandError or with another *)
(* exception that is not the timeout                                   *)
RaisedRuns ==
    {i \in Threads : /\ threads[i].pc = "done"
                     /\ threads[i].exec # 0
                     /\ threads[i].caught \in {"CommandError", "Exception"}}

(* C30: an execution whose command ended with a CommandError or another *)
(* exception that is not the timeout is stored failed with error_count  *)
(* 1, the value set in the except clause                                *)
RaisedRunStoresOneError ==
    \A i \in RaisedRuns :
       /\ executions[threads[i].exec].status = "failed"
       /\ executions[threads[i].exec].error_count = 1

(* what does hold: such an execution is stored failed *)
RaisedRunStoredFailed ==
    \A i \in RaisedRuns : executions[threads[i].exec].status = "failed"

(* a command that raised CommandError before any output is stored *)
(* failed with error_count 0                                      *)
CommandErrorStoredWithoutError ==
    \E i \in RaisedRuns :
       /\ threads[i].caught = "CommandError"
       /\ executions[threads[i].exec].status = "failed"
       /\ executions[threads[i].exec].error_count = 0

====
